---------------------------- MODULE Spec2Model ----------------------------
(***************************************************************************)
(* anagram-server: the AnagramService (word validation, normalisation,     *)
(* proper-noun matching, add/get/delete/clear and the running counters)    *)
(* over the MemoryAdapter keyed-set store.                                 *)
(*                                                                         *)
(* A JavaScript string is a sequence of one-character strings; the Map of  *)
(* the MemoryAdapter is a sequence of [key, values] entries in insertion   *)
(* order (the order Map.prototype.forEach enumerates).                     *)
(***************************************************************************)
EXTENDS Integers, Sequences, FiniteSets, TLC

VARIABLES
    map,            \* MemoryAdapter._map: <<[key, values], ...>> in insertion order
    wordCount,      \* AnagramService._wordCount
    anagramCount,   \* AnagramService._anagramCount
    last            \* the operation the caller issued last and what its promise settled with

vars == <<map, wordCount, anagramCount, last>>

\* What the caller holds of the call it issued last: the operation op, and
\* how the promise it returned stands.
LastOutcomeOf(op, outcome) == last.op = op /\ last.outcome = outcome

---------------------------------------------------------------------------
(* Characters and JavaScript string primitives                             *)

LowerLetters == {"a", "b", "c", "d", "e", "r"}
UpperLetters == {"A", "B", "C", "D", "E", "R"}
Letters == LowerLetters \cup UpperLetters

\* UTF-16 code units, the order Array.prototype.sort() compares strings by.
CodeUnit ==
    (" " :> 32) @@ ("-" :> 45) @@ ("1" :> 49) @@
    ("A" :> 65) @@ ("B" :> 66) @@ ("C" :> 67) @@ ("D" :> 68) @@ ("E" :> 69) @@ ("R" :> 82) @@
    ("a" :> 97) @@ ("b" :> 98) @@ ("c" :> 99) @@ ("d" :> 100) @@ ("e" :> 101) @@ ("r" :> 114)

\* String.prototype.toLowerCase / toUpperCase on one character (ASCII).
toLowerCaseChar(c) ==
    IF c \in UpperLetters
    THEN CHOOSE l \in LowerLetters : CodeUnit[l] = CodeUnit[c] + 32
    ELSE c

toUpperCaseChar(c) ==
    IF c \in LowerLetters
    THEN CHOOSE u \in UpperLetters : CodeUnit[u] = CodeUnit[c] - 32
    ELSE c

toLowerCase(s) == [i \in 1..Len(s) |-> toLowerCaseChar(s[i])]

\* String.prototype.trim: strip leading and trailing white space.
RECURSIVE trimStart(_)
trimStart(s) ==
    IF s # <<>> /\ Head(s) = " " THEN trimStart(Tail(s)) ELSE s

RECURSIVE trimEnd(_)
trimEnd(s) ==
    IF s # <<>> /\ s[Len(s)] = " " THEN trimEnd(SubSeq(s, 1, Len(s) - 1)) ELSE s

trim(s) == trimEnd(trimStart(s))

\* Array.prototype.includes / indexOf (0 when absent, 1-based otherwise).
includes(arr, v) == \E i \in 1..Len(arr) : arr[i] = v

indexOf(arr, v) ==
    IF includes(arr, v)
    THEN CHOOSE i \in 1..Len(arr) : arr[i] = v /\ \A j \in 1..(i - 1) : arr[j] # v
    ELSE 0

\* Fault variant: the first value goes, whatever the index.
splice1_first(arr, idx) == Tail(arr)

\* Array.prototype.splice(idx, 1)
splice1(arr, idx) == SubSeq(arr, 1, idx - 1) \o SubSeq(arr, idx + 1, Len(arr))

\* Array.prototype.slice(0, end), end an integer: a negative end counts from
\* the end of the array.
slice0(arr, end) ==
    LET n == Len(arr)
        e == IF end < 0
             THEN (IF n + end < 0 THEN 0 ELSE n + end)
             ELSE (IF end > n THEN n ELSE end)
    IN  SubSeq(arr, 1, e)

\* Array.prototype.sort() on an array of one-character strings: ascending
\* code units.
RECURSIVE insertSorted(_, _)
insertSorted(c, s) ==
    IF s = <<>> THEN <<c>>
    ELSE IF CodeUnit[c] <= CodeUnit[Head(s)] THEN <<c>> \o s
    ELSE <<Head(s)>> \o insertSorted(c, Tail(s))

RECURSIVE sortChars(_)
sortChars(s) ==
    IF s = <<>> THEN <<>> ELSE insertSorted(Head(s), sortChars(Tail(s)))

\* String.prototype.split('-')
RECURSIVE splitHyphen(_)
splitHyphen(s) ==
    IF ~includes(s, "-") THEN <<s>>
    ELSE LET i == indexOf(s, "-")
         IN  <<SubSeq(s, 1, i - 1)>> \o splitHyphen(SubSeq(s, i + 1, Len(s)))

---------------------------------------------------------------------------
(* Validator / normaliser                                                  *)

\* Fault variant: a letter that occurs several times is kept once.
RECURSIVE squeeze(_)
squeeze(s) ==
    IF Len(s) < 2 THEN s
    ELSE IF s[1] = s[2] THEN squeeze(Tail(s))
    ELSE <<Head(s)>> \o squeeze(Tail(s))

normalizeWord_squeezed(word) == squeeze(sortChars(toLowerCase(word)))

normalizeWord(word) == sortChars(toLowerCase(word))

\* Fault variant: a hyphen is taken wherever a letter is.
RECURSIVE validTail_hyphens(_, _)
validTail_hyphens(s, i) ==
    IF i > Len(s) THEN TRUE
    ELSE IF s[i] \in Letters \cup {"-"} THEN validTail_hyphens(s, i + 1)
    ELSE FALSE

\* /^[A-Za-z]+(-?[A-Za-z]+)*$/ from position i on, position i - 1 being a letter:
\* a letter continues the run, a hyphen must be followed by a letter.
RECURSIVE validTail(_, _)
validTail(s, i) ==
    IF i > Len(s) THEN TRUE
    ELSE IF s[i] \in Letters THEN validTail(s, i + 1)
    ELSE IF s[i] = "-" THEN i + 1 <= Len(s) /\ s[i + 1] \in Letters /\ validTail(s, i + 2)
    ELSE FALSE

\* A JavaScript value handed in as a word: a string, or something else.
Str(s) == [type |-> "string", v |-> s]
NotAString == [type |-> "number", v |-> <<>>]

isString(x) == x.type = "string"

isValidWord(x) ==
    /\ isString(x)
    /\ LET s == trim(x.v)
       IN  s # <<>> /\ s[1] \in Letters /\ validTail(s, 2)

\* util.isProperNoun: /^[A-Z]((-[A-Za-z])?[a-z]*)*$/
RECURSIVE properTail(_, _)
properTail(s, i) ==
    IF i > Len(s) THEN TRUE
    ELSE IF s[i] \in LowerLetters THEN properTail(s, i + 1)
    ELSE IF s[i] = "-" THEN i + 1 <= Len(s) /\ s[i + 1] \in Letters /\ properTail(s, i + 2)
    ELSE FALSE

isProperNoun(s) == s # <<>> /\ s[1] \in UpperLetters /\ properTail(s, 2)

\* Fault variant: letters are compared without regard to case.
sameWord_anyCase(word, target) == toLowerCase(word) = toLowerCase(target)

\* Fault variant: only the first letter of the whole word may be uppercased.
sameWord_firstOnly(word, target) ==
    IF Len(word) # Len(target) THEN FALSE
    ELSE IF Len(word) = 0 \/ word = target THEN TRUE
    ELSE <<toUpperCaseChar(word[1])>> \o SubSeq(word, 2, Len(word)) = target

RECURSIVE sameWord(_, _)
sameWord(word, target) ==
    IF Len(word) # Len(target) THEN FALSE
    ELSE IF Len(word) = 0 \/ word = target THEN TRUE
    ELSE IF includes(target, "-")
    THEN IF ~includes(word, "-") THEN FALSE
         ELSE LET targetComponents == splitHyphen(target)
                  wordComponents == splitHyphen(word)
              IN  /\ Len(targetComponents) = Len(wordComponents)
                  /\ \A i \in 1..Len(targetComponents) :
                        sameWord(wordComponents[i], targetComponents[i])
    ELSE <<toUpperCaseChar(word[1])>> \o SubSeq(word, 2, Len(word)) = target

\* Fault variant: any non-empty set counts as holding the word.
hasWord_nonEmpty(arr, word) == Len(arr) > 0

hasWord(arr, word) == \E i \in 1..Len(arr) : sameWord(word, arr[i])

---------------------------------------------------------------------------
(* JavaScript numbers and option bags                                      *)

\* A number argument or option: absent (undefined, and so NaN after unary +)
\* or an integer.
Undefined == [kind |-> "undefined", n |-> 0]
Num(n) == [kind |-> "number", n |-> n]

\* Truthiness of +x: undefined, NaN and 0 are falsy.
truthy(x) == x.kind = "number" /\ x.n # 0

NoOpts == [includeInput |-> FALSE, excludeProperNouns |-> FALSE, limit |-> Undefined,
           includeAnagrams |-> FALSE]

---------------------------------------------------------------------------
(* MemoryAdapter: a Map from key to array of values                        *)

mapHas(m, key) == \E i \in 1..Len(m) : m[i].key = key

\* Map.prototype.get(key) || []
mapGet(m, key) ==
    IF mapHas(m, key)
    THEN m[CHOOSE i \in 1..Len(m) : m[i].key = key].values
    ELSE <<>>

\* Map.prototype.set: an existing key keeps its place, a new key goes last.
mapSet(m, key, values) ==
    IF mapHas(m, key)
    THEN [i \in 1..Len(m) |-> IF m[i].key = key THEN [key |-> key, values |-> values] ELSE m[i]]
    ELSE Append(m, [key |-> key, values |-> values])

\* Fault variant: every entry from the key on is dropped.
mapDelete_onward(m, key) ==
    IF mapHas(m, key)
    THEN SubSeq(m, 1, (CHOOSE i \in 1..Len(m) : m[i].key = key) - 1)
    ELSE m

\* Map.prototype.delete
mapDelete(m, key) == SelectSeq(m, LAMBDA e : e.key # key)

MemoryAdapter_get(m, key) == mapGet(m, key)

\* Fault variant: pushes the value without looking for it in the set.
MemoryAdapter_add_push(m, key, val) ==
    LET values == mapGet(m, key)
    IN  IF ~mapHas(m, key)
        THEN [map |-> mapSet(m, key, <<val>>), affected |-> 1, size |-> 1]
        ELSE [map |-> mapSet(m, key, Append(values, val)), affected |-> 1,
              size |-> Len(values) + 1]

\* Fault variant: a new value goes to the front of its set.
MemoryAdapter_add_unshift(m, key, val) ==
    LET values == mapGet(m, key)
    IN  IF ~mapHas(m, key)
        THEN [map |-> mapSet(m, key, <<val>>), affected |-> 1, size |-> 1]
        ELSE IF ~includes(values, val)
        THEN [map |-> mapSet(m, key, <<val>> \o values), affected |-> 1,
              size |-> Len(values) + 1]
        ELSE [map |-> m, affected |-> 0, size |-> Len(values)]

MemoryAdapter_add(m, key, val) ==
    LET values == mapGet(m, key)
    IN  IF ~mapHas(m, key)
        THEN [map |-> mapSet(m, key, <<val>>), affected |-> 1, size |-> 1]
        ELSE IF ~includes(values, val)
        THEN [map |-> mapSet(m, key, Append(values, val)), affected |-> 1,
              size |-> Len(values) + 1]
        ELSE [map |-> m, affected |-> 0, size |-> Len(values)]

\* The selector of a delete: nothing (the whole set), a value, or the
\* predicate generator AnagramService.delete builds around its input word.
DeleteAll == [kind |-> "null", word |-> <<>>]
DeleteValue(word) == [kind |-> "value", word |-> word]
DeleteIfMember(word) == [kind |-> "generator", word |-> word]

\* Fault variant: the membership test is left out, the group always goes.
setExcludesWord_never(anagramSet, word) == FALSE

\* AnagramService.delete's generator: the predicate keeps every value when
\* the set excludes the word and no value when it holds it.
setExcludesWord(anagramSet, word) == ~hasWord(anagramSet, word)

\* Fault variant: a value delete reports the size the set had before it.
MemoryAdapter_delete_sizeBefore(m, key, val) ==
    LET values == mapGet(m, key)
    IN  IF val.kind = "null"
        THEN [map |-> mapDelete(m, key), affected |-> Len(values), size |-> 0]
        ELSE IF val.kind = "generator"
        THEN LET keep == setExcludesWord(values, val.word)
                 filteredValues == SelectSeq(values, LAMBDA v : keep)
             IN  [map |-> IF Len(filteredValues) = 0
                          THEN mapDelete(m, key)
                          ELSE mapSet(m, key, filteredValues),
                  affected |-> Len(values) - Len(filteredValues),
                  size |-> Len(filteredValues)]
        ELSE LET idx == indexOf(values, val.word)
             IN  IF idx > 0
                 THEN IF Len(values) = 1
                      THEN [map |-> mapDelete(m, key), affected |-> 1, size |-> 0]
                      ELSE [map |-> mapSet(m, key, splice1(values, idx)), affected |-> 1,
                            size |-> Len(values)]
                 ELSE [map |-> m, affected |-> 0, size |-> Len(values)]

\* Fault variant: the last value of a set is spliced out and the key stays.
MemoryAdapter_delete_keepsKey(m, key, val) ==
    LET values == mapGet(m, key)
    IN  IF val.kind = "null"
        THEN [map |-> mapDelete(m, key), affected |-> Len(values), size |-> 0]
        ELSE IF val.kind = "generator"
        THEN LET keep == setExcludesWord(values, val.word)
                 filteredValues == SelectSeq(values, LAMBDA v : keep)
             IN  [map |-> IF Len(filteredValues) = 0
                          THEN mapDelete(m, key)
                          ELSE mapSet(m, key, filteredValues),
                  affected |-> Len(values) - Len(filteredValues),
                  size |-> Len(filteredValues)]
        ELSE LET idx == indexOf(values, val.word)
             IN  IF idx > 0
                 THEN [map |-> mapSet(m, key, splice1(values, idx)), affected |-> 1,
                       size |-> Len(values) - 1]
                 ELSE [map |-> m, affected |-> 0, size |-> Len(values)]

MemoryAdapter_delete(m, key, val) ==
    LET values == mapGet(m, key)
    IN  IF val.kind = "null"
        THEN [map |-> mapDelete(m, key), affected |-> Len(values), size |-> 0]
        ELSE IF val.kind = "generator"
        THEN LET keep == setExcludesWord(values, val.word)
                 filteredValues == SelectSeq(values, LAMBDA v : keep)
             IN  [map |-> IF Len(filteredValues) = 0
                          THEN mapDelete(m, key)
                          ELSE mapSet(m, key, filteredValues),
                  affected |-> Len(values) - Len(filteredValues),
                  size |-> Len(filteredValues)]
        ELSE LET idx == indexOf(values, val.word)
             IN  IF idx > 0
                 THEN IF Len(values) = 1
                      THEN [map |-> mapDelete(m, key), affected |-> 1, size |-> 0]
                      ELSE [map |-> mapSet(m, key, splice1(values, idx)), affected |-> 1,
                            size |-> Len(values) - 1]
                 ELSE [map |-> m, affected |-> 0, size |-> Len(values)]

MemoryAdapter_clear(m) == <<>>

---------------------------------------------------------------------------
(* AnagramService: add / get / delete / clear                              *)

\* What a call leaves behind: the store, the counters, and how the promise
\* it returned settled.
Settled(m, wc, ac, outcome, value) ==
    [map |-> m, wordCount |-> wc, anagramCount |-> ac, outcome |-> outcome, value |-> value]

\* throw `Input word "${word}" is invalid` inside the executor: the promise
\* is rejected before the store is touched.
InvalidWord(st, x) == Settled(st.map, st.wordCount, st.anagramCount, "rejected", x)

\* Fault variant: counts a word for every add, duplicate or not.
addWordCountIncrement_always(result) == 1

\* The count increments add's callback applies for a store result.
addWordCountIncrement(result) ==
    IF result.affected # 0 THEN result.affected ELSE 0

\* Fault variant: counts the first word of a new set as an anagram.
addAnagramCountIncrement_first(result) ==
    IF result.affected # 0 THEN result.affected ELSE 0

addAnagramCountIncrement(result) ==
    IF result.affected # 0
    THEN result.affected - (IF result.size = result.affected THEN 1 ELSE 0)
    ELSE 0

AnagramService_add(st, x) ==
    IF ~isValidWord(x) THEN InvalidWord(st, x)
    ELSE LET word == trim(x.v)
             result == MemoryAdapter_add(st.map, normalizeWord(word), word)
             wordCountIncrement == addWordCountIncrement(result)
             anagramCountIncrement == addAnagramCountIncrement(result)
         IN  Settled(result.map,
                     st.wordCount + wordCountIncrement,
                     st.anagramCount + anagramCountIncrement,
                     "resolved",
                     [word |-> wordCountIncrement, anagram |-> anagramCountIncrement])

\* Fault variant: filters the input by sameWord, taking its proper-noun
\* counterpart out with it.
filterInput_sameWord(anagramSet, word, opts) ==
    IF ~opts.includeInput
    THEN SelectSeq(anagramSet, LAMBDA str : ~sameWord(word, str))
    ELSE anagramSet

\* Fault variant: with includeInput the input word is returned whether it
\* is stored or not.
filterInput_adds(anagramSet, word, opts) ==
    IF ~opts.includeInput
    THEN SelectSeq(anagramSet, LAMBDA str : str # word)
    ELSE IF includes(anagramSet, word) THEN anagramSet
    ELSE <<word>> \o anagramSet

\* The filters of get, in the order the callback applies them.
filterInput(anagramSet, word, opts) ==
    IF ~opts.includeInput
    THEN SelectSeq(anagramSet, LAMBDA str : str # word)
    ELSE anagramSet

\* Fault variant: the input word is filtered with the other proper nouns.
filterProperNouns_input(anagramSet, word, opts) ==
    IF opts.excludeProperNouns
    THEN SelectSeq(anagramSet, LAMBDA str : ~isProperNoun(str))
    ELSE anagramSet

filterProperNouns(anagramSet, word, opts) ==
    IF opts.excludeProperNouns
    THEN SelectSeq(anagramSet, LAMBDA str : ~isProperNoun(str) \/ str = word)
    ELSE anagramSet

\* Fault variant: keeps the last entries instead of the first.
applyLimit_tail(anagramSet, opts) ==
    IF truthy(opts.limit) /\ opts.limit.n > 0 /\ opts.limit.n < Len(anagramSet)
    THEN SubSeq(anagramSet, Len(anagramSet) - opts.limit.n + 1, Len(anagramSet))
    ELSE anagramSet

applyLimit(anagramSet, opts) ==
    IF truthy(opts.limit) THEN slice0(anagramSet, opts.limit.n) ELSE anagramSet

\* Fault variant: the filters of get are applied to the stored array itself.
AnagramService_get_inPlace(st, x, opts) ==
    IF ~isValidWord(x) THEN InvalidWord(st, x)
    ELSE LET word == trim(x.v)
             anagramSet == MemoryAdapter_get(st.map, normalizeWord(word))
             result == applyLimit(
                           filterProperNouns(filterInput(anagramSet, word, opts), word, opts),
                           opts)
         IN  IF ~hasWord(anagramSet, word)
             THEN Settled(st.map, st.wordCount, st.anagramCount, "resolved", <<>>)
             ELSE Settled(IF result = <<>> THEN st.map
                          ELSE mapSet(st.map, normalizeWord(word), result),
                          st.wordCount, st.anagramCount, "resolved", result)

AnagramService_get(st, x, opts) ==
    IF ~isValidWord(x) THEN InvalidWord(st, x)
    ELSE LET word == trim(x.v)
             anagramSet == MemoryAdapter_get(st.map, normalizeWord(word))
         IN  Settled(st.map, st.wordCount, st.anagramCount, "resolved",
                     IF ~hasWord(anagramSet, word)
                     THEN <<>>
                     ELSE applyLimit(
                              filterProperNouns(filterInput(anagramSet, word, opts), word, opts),
                              opts))

\* Fault variant: the group selector whatever the options say.
deleteCond_group(word, opts) == DeleteIfMember(word)

\* The selector delete hands to the store.
deleteCond(word, opts) ==
    IF opts.includeAnagrams THEN DeleteIfMember(word) ELSE DeleteValue(word)

\* Fault variant: counts the last word of a set as an anagram when it goes.
deleteAnagramCountDecrement_last(result) == result.affected

\* What delete's callback takes off the anagram count for a store result.
deleteAnagramCountDecrement(result) ==
    result.affected - (IF result.size # 0 THEN 0 ELSE 1)

AnagramService_delete(st, x, opts) ==
    IF ~isValidWord(x) THEN InvalidWord(st, x)
    ELSE LET word == trim(x.v)
             result == MemoryAdapter_delete(st.map, normalizeWord(word), deleteCond(word, opts))
         IN  IF result.affected # 0
             THEN Settled(result.map,
                          st.wordCount - result.affected,
                          st.anagramCount - deleteAnagramCountDecrement(result),
                          "resolved", result.affected)
             ELSE Settled(result.map, st.wordCount, st.anagramCount, "resolved",
                          result.affected)

AnagramService_clear(st) ==
    Settled(MemoryAdapter_clear(st.map), 0, 0, "resolved", <<>>)

---------------------------------------------------------------------------
(* Query engine: scans over MemoryAdapter.each                             *)

\* Fault variant: a min below the floor is taken as given.
effectiveMin_unfloored(min, floor) ==
    IF ~truthy(min) THEN floor ELSE min.n

\* min = !min || min < floor ? floor : min
effectiveMin(min, floor) ==
    IF ~truthy(min) \/ min.n < floor THEN floor ELSE min.n

\* max = Infinity when !max, and is raised to min when below it.
effectiveMax(max, min) ==
    IF ~truthy(max) THEN [infinite |-> TRUE, n |-> 0]
    ELSE IF max.n < min THEN [infinite |-> FALSE, n |-> min]
    ELSE [infinite |-> FALSE, n |-> max.n]

atMost(n, max) == max.infinite \/ n <= max.n

\* The values of the entries each() visits for which the iteratee pushes.
collect(kept) == [i \in 1..Len(kept) |-> kept[i].values]

anagramsByCardinality(m, min, max) ==
    LET lo == effectiveMin(min, 2)
        hi == effectiveMax(max, lo)
    IN  collect(SelectSeq(m, LAMBDA e : lo <= Len(e.values) /\ atMost(Len(e.values), hi)))

\* Fault variant: sets of one word are not left out.
anagramsByLength_singles(m, min, max) ==
    LET lo == effectiveMin(min, 1)
        hi == effectiveMax(max, lo)
    IN  collect(SelectSeq(m, LAMBDA e : lo <= Len(e.key) /\ atMost(Len(e.key), hi)))

anagramsByLength(m, min, max) ==
    LET lo == effectiveMin(min, 1)
        hi == effectiveMax(max, lo)
    IN  collect(SelectSeq(m, LAMBDA e :
                    Len(e.values) > 1 /\ lo <= Len(e.key) /\ atMost(Len(e.key), hi)))

\* Fault variant: a strictly larger set is pushed without restarting the result.
RECURSIVE scanMaxCardinality_append(_, _, _)
scanMaxCardinality_append(m, result, maxCardinality) ==
    IF m = <<>> THEN result
    ELSE LET anagramSet == Head(m).values
             cardinality == Len(anagramSet)
         IN  IF cardinality < 2 THEN scanMaxCardinality_append(Tail(m), result, maxCardinality)
             ELSE IF cardinality >= maxCardinality
             THEN scanMaxCardinality_append(Tail(m), Append(result, anagramSet), cardinality)
             ELSE scanMaxCardinality_append(Tail(m), result, maxCardinality)

\* The streaming scans: a strictly larger measure restarts the result, an
\* equal one is pushed; sets of one word are skipped.
RECURSIVE scanMaxCardinality(_, _, _)
scanMaxCardinality(m, result, maxCardinality) ==
    IF m = <<>> THEN result
    ELSE LET anagramSet == Head(m).values
             cardinality == Len(anagramSet)
         IN  IF cardinality < 2 THEN scanMaxCardinality(Tail(m), result, maxCardinality)
             ELSE IF cardinality > maxCardinality
             THEN scanMaxCardinality(Tail(m), <<anagramSet>>, cardinality)
             ELSE IF cardinality = maxCardinality
             THEN scanMaxCardinality(Tail(m), Append(result, anagramSet), maxCardinality)
             ELSE scanMaxCardinality(Tail(m), result, maxCardinality)

maxCardinalityAnagrams(m) == scanMaxCardinality(m, <<>>, 1)

\* Fault variant: sets of one word take part in the scan for the longest words.
RECURSIVE scanMaxLength_singles(_, _, _)
scanMaxLength_singles(m, result, maxLen) ==
    IF m = <<>> THEN result
    ELSE LET anagramSet == Head(m).values
             len == Len(Head(m).key)
         IN  IF len > maxLen
             THEN scanMaxLength_singles(Tail(m), <<anagramSet>>, len)
             ELSE IF len = maxLen
             THEN scanMaxLength_singles(Tail(m), Append(result, anagramSet), maxLen)
             ELSE scanMaxLength_singles(Tail(m), result, maxLen)

RECURSIVE scanMaxLength(_, _, _)
scanMaxLength(m, result, maxLen) ==
    IF m = <<>> THEN result
    ELSE LET anagramSet == Head(m).values
             len == Len(Head(m).key)
         IN  IF Len(anagramSet) < 2 THEN scanMaxLength(Tail(m), result, maxLen)
             ELSE IF len > maxLen
             THEN scanMaxLength(Tail(m), <<anagramSet>>, len)
             ELSE IF len = maxLen
             THEN scanMaxLength(Tail(m), Append(result, anagramSet), maxLen)
             ELSE scanMaxLength(Tail(m), result, maxLen)

maxLengthAnagrams(m) == scanMaxLength(m, <<>>, 0)

\* Fault variant: only the first word after the anchor is looked up.
allKnown_first(anagramSet, arr, i) ==
    IF i > Len(arr) THEN [outcome |-> "resolved", value |-> TRUE]
    ELSE IF ~isString(arr[i]) THEN [outcome |-> "pending", value |-> FALSE]
    ELSE [outcome |-> "resolved", value |-> hasWord(anagramSet, trim(arr[i].v))]

\* areAnagrams resolves only from the callback of get(arr[0]); it has no
\* rejection path, so when that get rejects, or arr[i].trim() throws inside
\* the callback, the promise it returned stays pending.
RECURSIVE allKnown(_, _, _)
allKnown(anagramSet, arr, i) ==
    IF i > Len(arr) THEN [outcome |-> "resolved", value |-> TRUE]
    ELSE IF ~isString(arr[i]) THEN [outcome |-> "pending", value |-> FALSE]
    ELSE IF ~hasWord(anagramSet, trim(arr[i].v)) THEN [outcome |-> "resolved", value |-> FALSE]
    ELSE allKnown(anagramSet, arr, i + 1)

areAnagrams(st, arr) ==
    IF Len(arr) < 2 THEN [outcome |-> "resolved", value |-> FALSE]
    ELSE LET got == AnagramService_get(st, arr[1], NoOpts)
         IN  IF got.outcome = "rejected" THEN [outcome |-> "pending", value |-> FALSE]
             ELSE IF Len(got.value) = 0 THEN [outcome |-> "resolved", value |-> FALSE]
             ELSE allKnown(got.value, arr, 2)

---------------------------------------------------------------------------
(* The state machine: a caller issuing one operation after another         *)

\* At most this many words are kept in the dictionary.
MaxWords == 3

ValidStrings ==
    { <<"a", "c", "e", "r">>, <<"A", "c", "e", "r">>, <<"c", "a", "r", "e">>,
      <<"d", "a", "r", "e">>, <<"r", "e", "a", "d">>,
      <<"a", "-", "b">>, <<"A", "-", "B">>,
      <<" ", "a", "c", "e", "r">> }

InvalidStrings ==
    { <<>>, <<"a", "1">>, <<"-", "a">>, <<"a", "-">>, <<"a", "-", "-", "b">> }

Inputs == {Str(s) : s \in ValidStrings \cup InvalidStrings} \cup {NotAString}

Limits == {Undefined, Num(-1), Num(0), Num(1), Num(2)}

GetOpts ==
    [includeInput : BOOLEAN, excludeProperNouns : BOOLEAN, limit : Limits,
     includeAnagrams : {FALSE}]

AllGetOpts ==
    [includeInput |-> TRUE, excludeProperNouns |-> TRUE, limit |-> Num(1),
     includeAnagrams |-> FALSE]

\* get reads its options only after the word has passed isValidWord, so the
\* words that do not pass are tried with no option and with every option set.
GetArgs ==
    ({x \in Inputs : isValidWord(x)} \X GetOpts)
        \cup ({x \in Inputs : ~isValidWord(x)} \X {NoOpts, AllGetOpts})

DeleteOpts ==
    [includeInput : {FALSE}, excludeProperNouns : {FALSE}, limit : {Undefined},
     includeAnagrams : BOOLEAN]

State == [map |-> map, wordCount |-> wordCount, anagramCount |-> anagramCount]

NoLast ==
    [op |-> "none", word |-> NotAString, opts |-> NoOpts,
     pre |-> [map |-> <<>>, wordCount |-> 0, anagramCount |-> 0],
     outcome |-> "none", value |-> <<>>]

RECURSIVE totalWords(_)
totalWords(m) == IF m = <<>> THEN 0 ELSE Len(Head(m).values) + totalWords(Tail(m))

Init ==
    /\ map = <<>>
    /\ wordCount = 0
    /\ anagramCount = 0
    /\ last = NoLast

\* The operation runs to completion (the store call and the callback that
\* settles the promise) and the caller holds what it settled with.
Complete(op, x, opts, r) ==
    /\ last.op = "none"
    /\ map' = r.map
    /\ wordCount' = r.wordCount
    /\ anagramCount' = r.anagramCount
    /\ last' = [op |-> op, word |-> x, opts |-> opts, pre |-> State,
                outcome |-> r.outcome, value |-> r.value]

Add ==
    \E x \in Inputs :
        LET r == AnagramService_add(State, x)
        IN  totalWords(r.map) <= MaxWords /\ Complete("add", x, NoOpts, r)

Get ==
    \E args \in GetArgs :
        Complete("get", args[1], args[2], AnagramService_get(State, args[1], args[2]))

Delete ==
    \E x \in Inputs, opts \in DeleteOpts :
        Complete("delete", x, opts, AnagramService_delete(State, x, opts))

Clear == Complete("clear", NotAString, NoOpts, AnagramService_clear(State))

\* The caller is done with the result and is free to issue the next call.
Return ==
    /\ last.op # "none"
    /\ last' = NoLast
    /\ UNCHANGED <<map, wordCount, anagramCount>>

Next == Add \/ Get \/ Delete \/ Clear \/ Return

Spec == Init /\ [][Next]_vars

---------------------------------------------------------------------------
(* Vocabulary of the properties                                            *)

acer == <<"a", "c", "e", "r">>
Acer == <<"A", "c", "e", "r">>
care == <<"c", "a", "r", "e">>

\* Every word stored in some set of the dictionary.
StoredWords(m) ==
    UNION {{m[i].values[j] : j \in 1..Len(m[i].values)} : i \in 1..Len(m)}

\* The stored words that share w's key.
SameKeyWords(m, w) == {v \in StoredWords(m) : normalizeWord(v) = normalizeWord(w)}

\* What a full scan of the store computes.
RECURSIVE scanAnagramCount(_)
scanAnagramCount(m) ==
    IF m = <<>> THEN 0
    ELSE (IF Len(Head(m).values) >= 2 THEN Len(Head(m).values) - 1 ELSE 0)
             + scanAnagramCount(Tail(m))

scanWordCount(m) ==
    Cardinality(UNION {{<<i, j>> : j \in 1..Len(m[i].values)} : i \in 1..Len(m)})

\* The last call was op, on a word that passes the validator.
LastValid(op) == last.op = op /\ isValidWord(last.word)

LastWord == trim(last.word.v)

SameCounters(a, b) == a.wordCount = b.wordCount /\ a.anagramCount = b.anagramCount

---------------------------------------------------------------------------
(* C1: after any sequence of completed add, delete (with or without        *)
(* includeAnagrams) and clear operations, wordCount is the number of words *)
(* over all stored sets and anagramCount is the sum of (size - 1) over the *)
(* sets of size >= 2.                                                      *)
C1_CountersMatchScan ==
    /\ wordCount = scanWordCount(map)
    /\ anagramCount = scanAnagramCount(map)

\* A group delete took a whole set of two or more words and left other words behind.
C1_Witness ==
    /\ last.op = "delete" /\ last.opts.includeAnagrams
    /\ last.outcome = "resolved" /\ last.value >= 2
    /\ wordCount > 0

(* C2: every stored word lies in exactly one set, the set whose key is     *)
(* normalize(word), and no set holds two equal strings.                    *)
C2_OneSetPerWord ==
    /\ \A i \in 1..Len(map) : \A j \in 1..Len(map[i].values) :
          map[i].key = normalizeWord(map[i].values[j])
    /\ \A i1, i2 \in 1..Len(map) :
          \A j1 \in 1..Len(map[i1].values), j2 \in 1..Len(map[i2].values) :
              map[i1].values[j1] = map[i2].values[j2] => (i1 = i2 /\ j1 = j2)

\* Two sets, one of them with two words.
C2_Witness ==
    /\ Len(map) = 2
    /\ \E i \in 1..Len(map) : Len(map[i].values) = 2

(* C3: add(w) of a valid w resolves with {word:1, anagram:0} when no word  *)
(* with w's key is stored, {word:1, anagram:1} when words with w's key are *)
(* stored but not the string w itself, and {word:0, anagram:0} when the    *)
(* string w is stored.                                                     *)
C3_AddDeltas ==
    LastValid("add") =>
        /\ last.outcome = "resolved"
        /\ last.value =
              IF SameKeyWords(last.pre.map, LastWord) = {}
              THEN [word |-> 1, anagram |-> 0]
              ELSE IF LastWord \notin SameKeyWords(last.pre.map, LastWord)
              THEN [word |-> 1, anagram |-> 1]
              ELSE [word |-> 0, anagram |-> 0]

\* "acer" was added while only "Acer" was stored under its key.
C3_Witness ==
    /\ last.op = "add" /\ last.word = Str(acer)
    /\ SameKeyWords(last.pre.map, acer) = {Acer}
    /\ last.value = [word |-> 1, anagram |-> 1]

(* C4: after an add(w) that succeeded, a second add(w) resolves with       *)
(* {word:0, anagram:0} and leaves every stored set and both counters       *)
(* unchanged.                                                              *)
C4_AddIdempotent ==
    /\ (last.op = "add" /\ last.outcome = "resolved") =>
          LET second == AnagramService_add(State, last.word)
          IN  /\ second.outcome = "resolved"
              /\ second.value = [word |-> 0, anagram |-> 0]
              /\ second.map = map
              /\ SameCounters(second, State)
    /\ (LastValid("add") /\ LastWord \in StoredWords(last.pre.map)) =>
          /\ last.value = [word |-> 0, anagram |-> 0]
          /\ map = last.pre.map
          /\ SameCounters(State, last.pre)

\* The second add of a stored word has run, in a dictionary with anagrams.
C4_Witness ==
    /\ LastValid("add") /\ LastWord \in StoredWords(last.pre.map)
    /\ last.value = [word |-> 0, anagram |-> 0]
    /\ anagramCount > 0

(* C5: get(w) of a valid w, under every option combination, resolves with  *)
(* the empty sequence whenever no entry of the set stored at normalize(w)  *)
(* equals w or matches it via sameWord, also when that set is not empty.   *)
C5_UnknownWordGetsNothing ==
    LET anagramSet == mapGet(map, normalizeWord(LastWord))
    IN  (/\ LastValid("get")
         /\ \A i \in 1..Len(anagramSet) :
               anagramSet[i] # LastWord /\ ~sameWord(LastWord, anagramSet[i]))
        => (last.outcome = "resolved" /\ last.value = <<>>)

\* An unknown word was looked up, with includeInput, while anagrams of it are stored.
C5_Witness ==
    /\ LastValid("get") /\ last.opts.includeInput
    /\ LastWord \notin StoredWords(map)
    /\ Len(mapGet(map, normalizeWord(LastWord))) >= 2
    /\ ~hasWord(mapGet(map, normalizeWord(LastWord)), LastWord)
    /\ last.value = <<>>

\* The stored set with the entries string-equal to w taken out, in stored order.
Without(anagramSet, w) ==
    LET keep == {i \in 1..Len(anagramSet) : anagramSet[i] # w}
        nth(k) == CHOOSE i \in keep : Cardinality({j \in keep : j < i}) = k - 1
    IN  [k \in 1..Cardinality(keep) |-> anagramSet[nth(k)]]

DefaultBut(includeInput) == [NoOpts EXCEPT !.includeInput = includeInput]

(* C6: for a known word w, get(w) with default options resolves with the   *)
(* stored set minus exactly the entries string-equal to w (an entry that   *)
(* matches w only via sameWord stays); with includeInput it resolves with  *)
(* the whole stored set.                                                   *)
C6_GetExcludesExactInputOnly ==
    LET anagramSet == mapGet(map, normalizeWord(LastWord))
        known == \E i \in 1..Len(anagramSet) :
                    anagramSet[i] = LastWord \/ sameWord(LastWord, anagramSet[i])
    IN  /\ (LastValid("get") /\ known /\ last.opts = DefaultBut(FALSE))
              => last.value = Without(anagramSet, LastWord)
        /\ (LastValid("get") /\ known /\ last.opts = DefaultBut(TRUE))
              => last.value = anagramSet

\* "acer" was looked up with default options while "Acer" and "acer" are both stored.
C6_Witness ==
    /\ last.op = "get" /\ last.word = Str(acer) /\ last.opts = NoOpts
    /\ {acer, Acer} \subseteq StoredWords(map)
    /\ includes(last.value, Acer) /\ ~includes(last.value, acer)

\* The set stored at key k.
SetAt(m, k) == mapGet(m, k)

AllKeys(m1, m2) == {m1[i].key : i \in 1..Len(m1)} \cup {m2[i].key : i \in 1..Len(m2)}

(* C7: delete(w) without includeAnagrams removes only the entry string-    *)
(* equal to w, resolves with 1 when that entry existed and with 0 when it  *)
(* did not, and a repeated delete(w) resolves with 0 and changes nothing.  *)
C7_DeleteExact ==
    (LastValid("delete") /\ ~last.opts.includeAnagrams) =>
        LET key == normalizeWord(LastWord)
            again == AnagramService_delete(State, last.word, last.opts)
        IN  /\ last.outcome = "resolved"
            /\ \A k \in AllKeys(map, last.pre.map) :
                  SetAt(map, k) = IF k = key
                                  THEN Without(SetAt(last.pre.map, k), LastWord)
                                  ELSE SetAt(last.pre.map, k)
            /\ last.value = IF LastWord \in StoredWords(last.pre.map) THEN 1 ELSE 0
            /\ again.outcome = "resolved" /\ again.value = 0
            /\ again.map = map /\ SameCounters(again, State)

\* "acer" was deleted while "Acer" was stored beside it, and "Acer" is still there.
C7_Witness ==
    /\ last.op = "delete" /\ ~last.opts.includeAnagrams /\ last.word = Str(acer)
    /\ {acer, Acer} \subseteq StoredWords(last.pre.map)
    /\ last.value = 1
    /\ Acer \in StoredWords(map)

Malformed(s) ==
    \/ s = <<>>
    \/ \E i \in 1..Len(s) : s[i] \notin Letters \cup {"-"}
    \/ s[1] = "-"
    \/ s[Len(s)] = "-"
    \/ \E i \in 1..(Len(s) - 1) : s[i] = "-" /\ s[i + 1] = "-"

LastIsWordOp == last.op \in {"add", "get", "delete"}

RejectedUnchanged ==
    /\ last.outcome = "rejected"
    /\ map = last.pre.map
    /\ SameCounters(State, last.pre)

(* C9 as stated: add, get and delete called with an invalid word (empty,   *)
(* containing a non-letter other than a hyphen, starting or ending with a  *)
(* hyphen, containing two consecutive hyphens, or not a string) are        *)
(* rejected and leave every stored set and both counters unchanged.        *)
C9_InvalidWordRejected_AsStated ==
    (LastIsWordOp /\ (~isString(last.word) \/ Malformed(last.word.v)))
        => RejectedUnchanged

(* C9, amended: the same, the word being judged after the white space      *)
(* around it is trimmed off (a word that is malformed only by surrounding  *)
(* white space is accepted and stored trimmed).                            *)
C9_InvalidWordRejected ==
    (LastIsWordOp /\ (~isString(last.word) \/ Malformed(trim(last.word.v))))
        => RejectedUnchanged

\* A word with two consecutive hyphens was turned away from a dictionary that holds words.
C9_Witness ==
    /\ last.op = "delete" /\ last.word = Str(<<"a", "-", "-", "b">>)
    /\ last.outcome = "rejected"
    /\ wordCount > 0 /\ map = last.pre.map

\* Arguments of the range queries and of areAnagrams.
QueryNumbers == {Undefined, Num(-1), Num(0), Num(1), Num(2), Num(3)}

AreAnagramsArgs ==
    {<<>>} \cup {<<x>> : x \in Inputs} \cup {<<x, y>> : x \in Inputs, y \in Inputs}

(* C10: after clear() completes, wordCount and anagramCount are 0, get(w)  *)
(* is empty for every valid w, anagramsByCardinality, anagramsByLength,    *)
(* maxCardinalityAnagrams and maxLengthAnagrams return empty lists, and    *)
(* areAnagrams returns false for every input. (Read on the clears of a     *)
(* dictionary that held words.)                                            *)
C10_ClearEmptiesEverything ==
    (last.op = "clear" /\ last.pre.wordCount > 0) =>
        /\ wordCount = 0 /\ anagramCount = 0
        /\ \A x \in {y \in Inputs : isValidWord(y)}, opts \in GetOpts :
              LET got == AnagramService_get(State, x, opts)
              IN  got.outcome = "resolved" /\ got.value = <<>>
        /\ \A min \in QueryNumbers, max \in QueryNumbers :
              /\ anagramsByCardinality(map, min, max) = <<>>
              /\ anagramsByLength(map, min, max) = <<>>
        /\ maxCardinalityAnagrams(map) = <<>>
        /\ maxLengthAnagrams(map) = <<>>
        /\ \A arr \in AreAnagramsArgs :
              areAnagrams(State, arr) = [outcome |-> "resolved", value |-> FALSE]

---------------------------------------------------------------------------
(* The query caller: a dictionary built from a small vocabulary, and the   *)
(* queries (the four scans and areAnagrams) asked of it.  areAnagrams      *)
(* settles in two steps: the call returns a promise, and the promise is    *)
(* resolved from the callback of get(arr[0]), if that callback ever runs.  *)

\* At most this many words are kept in the dictionary the queries are asked of.
MaxQueryWords == 5

dare == <<"d", "a", "r", "e">>

\* The words the queried dictionary is built from: a key of four letters
\* with up to three words, a key of one letter with up to two, and a word
\* with no anagram.
QueryWords == {acer, Acer, care, <<"a">>, <<"A">>, dare}

QueryAddInputs == {Str(w) : w \in QueryWords} \cup {Str(<<"-", "a">>)}

\* Arguments of areAnagrams: every list of up to two of these values, and
\* the lists of three stored-word candidates.
AreAnagramsValues ==
    {Str(acer), Str(Acer), Str(care), Str(dare), Str(<<" ", "a", "c", "e", "r">>),
     Str(<<"-", "a">>), NotAString}

AreAnagramsLists ==
    {<<>>} \cup {<<x>> : x \in AreAnagramsValues}
        \cup {<<x, y>> : x \in AreAnagramsValues, y \in AreAnagramsValues}
        \cup {<<x, y, z>> : x \in {Str(acer), Str(care)},
                            y \in {Str(acer), Str(Acer), Str(care)},
                            z \in {Str(acer), Str(Acer), Str(care), Str(dare)}}

Resolved(st, value) == Settled(st.map, st.wordCount, st.anagramCount, "resolved", value)

QueryAdd ==
    \E x \in QueryAddInputs :
        LET r == AnagramService_add(State, x)
        IN  totalWords(r.map) <= MaxQueryWords /\ Complete("add", x, NoOpts, r)

QueryDelete ==
    \E x \in QueryAddInputs, opts \in DeleteOpts :
        Complete("delete", x, opts, AnagramService_delete(State, x, opts))

ByCardinality ==
    \E min \in QueryNumbers, max \in QueryNumbers :
        Complete("anagramsByCardinality", <<min, max>>, NoOpts,
                 Resolved(State, anagramsByCardinality(map, min, max)))

ByLength ==
    \E min \in QueryNumbers, max \in QueryNumbers :
        Complete("anagramsByLength", <<min, max>>, NoOpts,
                 Resolved(State, anagramsByLength(map, min, max)))

MaxCardinality ==
    Complete("maxCardinalityAnagrams", <<>>, NoOpts,
             Resolved(State, maxCardinalityAnagrams(map)))

MaxLength ==
    Complete("maxLengthAnagrams", <<>>, NoOpts, Resolved(State, maxLengthAnagrams(map)))

\* The executor of areAnagrams: a list of fewer than two words resolves
\* false at once; otherwise get(arr[0]) is called, which settles its own
\* promise on the spot (rejected, or resolved with the set read from the
\* store), and the promise of areAnagrams waits for the callback queued on
\* it.  The pending call holds what that callback is going to do.
AreAnagramsCall ==
    \E arr \in AreAnagramsLists :
        LET r == areAnagrams(State, arr)
        IN  Complete("areAnagrams", arr, NoOpts,
                     IF Len(arr) < 2
                     THEN Resolved(State, r.value)
                     ELSE Settled(map, wordCount, anagramCount, "pending", r))

\* The callback of get(arr[0]) runs, if get resolved and the callback does
\* not throw, and resolves the promise.
AreAnagramsSettle ==
    /\ LastOutcomeOf("areAnagrams", "pending")
    /\ last.value.outcome = "resolved"
    /\ last' = [last EXCEPT !.outcome = "resolved", !.value = last.value.value]
    /\ UNCHANGED <<map, wordCount, anagramCount>>

\* The caller goes on once the promise it awaits has settled.
QueryReturn == last.outcome # "pending" /\ Return

QueryNext ==
    \/ QueryAdd
    \/ QueryDelete
    \/ Clear
    \/ ByCardinality
    \/ ByLength
    \/ MaxCardinality
    \/ MaxLength
    \/ AreAnagramsCall
    \/ AreAnagramsSettle
    \/ QueryReturn

\* The job queue is always drained: a callback that is ready to run runs.
QuerySpec == Init /\ [][QueryNext]_vars /\ WF_vars(AreAnagramsSettle)

---------------------------------------------------------------------------
(* Properties of areAnagrams                                               *)

AllStrings(arr) == \A i \in 1..Len(arr) : isString(arr[i])

\* The last call was areAnagrams and its promise has resolved.
LastAffinity == LastOutcomeOf("areAnagrams", "resolved")

\* w matches an entry of the set, exactly or via sameWord.
Matches(w, anagramSet) ==
    \E j \in 1..Len(anagramSet) : anagramSet[j] = w \/ sameWord(w, anagramSet[j])

(* C11: areAnagrams(words) is false for fewer than two words or when       *)
(* get(words[0]) with default options is empty; otherwise it is true       *)
(* exactly when every word at a position >= 1 matches, exactly or via      *)
(* sameWord, an entry of get(words[0]); so it is true only if every word   *)
(* is known in one and the same stored set.  (Words are read trimmed, as   *)
(* every operation reads them, and words[0] is a valid word.)              *)
C11_AreAnagramsByAnchorSet ==
    (/\ LastAffinity
     /\ AllStrings(last.word)
     /\ Len(last.word) >= 2 => isValidWord(last.word[1]))
    => LET arr == last.word
           anchorSet == IF Len(arr) < 2
                        THEN <<>>
                        ELSE AnagramService_get(State, arr[1], NoOpts).value
       IN  /\ last.value =
                  (/\ Len(arr) >= 2
                   /\ anchorSet # <<>>
                   /\ \A i \in 2..Len(arr) : Matches(trim(arr[i].v), anchorSet))
           /\ last.value =>
                  \E k \in 1..Len(map) :
                      \A i \in 1..Len(arr) : Matches(trim(arr[i].v), map[k].values)

\* Three stored anagrams, one of them a proper noun, were found to be anagrams.
C11_Witness ==
    /\ LastAffinity
    /\ last.word = <<Str(acer), Str(care), Str(Acer)>>
    /\ last.value = TRUE

(* C12: areAnagrams never fails and never stays pending: for every list of *)
(* strings and every dictionary, also when the first word is not a valid   *)
(* word, the call eventually completes with a boolean.                     *)
C12_AreAnagramsCompletes ==
    (IF last.op = "areAnagrams" THEN AllStrings(last.word) ELSE FALSE)
        ~> (IF LastAffinity THEN last.value \in BOOLEAN ELSE FALSE)

(* C13: areAnagrams(words) is false whenever the exact string words[0]     *)
(* occurs again at some position >= 1 of words.                            *)
C13_RepeatedAnchorIsFalse ==
    (/\ LastAffinity
     /\ AllStrings(last.word)
     /\ \E i \in 2..Len(last.word) : last.word[i] = last.word[1])
    => last.value = FALSE

---------------------------------------------------------------------------
(* Properties of the options of get                                        *)

\* What the last get resolves with when its limit option is left out.
LastGetUnlimited ==
    AnagramService_get(last.pre, last.word, [last.opts EXCEPT !.limit = Undefined]).value

PositiveLimit(limit) == limit.kind = "number" /\ limit.n >= 1

(* C14: with excludeProperNouns, get(w) resolves with no entry that is a   *)
(* proper noun, except that with includeInput also set the entry string-   *)
(* equal to w is kept; a proper-noun counterpart that matches w only via   *)
(* sameWord is removed.                                                    *)
C14_ProperNounsExcluded ==
    (LastValid("get") /\ last.opts.excludeProperNouns) =>
        /\ last.outcome = "resolved"
        /\ \A i \in 1..Len(last.value) :
              isProperNoun(last.value[i]) =>
                  (last.opts.includeInput /\ last.value[i] = LastWord)
        /\ (/\ last.opts.includeInput
            /\ last.opts.limit = Undefined
            /\ LastWord \in StoredWords(map))
           => includes(last.value, LastWord)

\* The proper noun "Acer" was looked up with both options while "acer" is
\* stored beside it, and came back.
C14_Witness ==
    /\ last.op = "get" /\ last.word = Str(Acer)
    /\ last.opts.excludeProperNouns /\ last.opts.includeInput
    /\ last.opts.limit = Undefined
    /\ {acer, Acer} \subseteq StoredWords(map)
    /\ includes(last.value, Acer) /\ includes(last.value, acer)

(* C15: for a positive integer limit N, get(w, {limit: N, ...}) resolves   *)
(* with the first min(N, k) entries of the k entries the same call without *)
(* limit resolves with: the truncation comes after the includeInput and    *)
(* excludeProperNouns filters and keeps the stored order.                  *)
C15_LimitTruncates ==
    (LastValid("get") /\ PositiveLimit(last.opts.limit)) =>
        LET N == last.opts.limit.n
            k == Len(LastGetUnlimited)
        IN  /\ last.outcome = "resolved"
            /\ last.value = SubSeq(LastGetUnlimited, 1, IF N < k THEN N ELSE k)

\* A limit of 1 cut a result of two entries whose first is not the first
\* stored entry (a proper noun the filter took out).
C15_Witness ==
    /\ LastValid("get") /\ last.opts.limit = Num(1) /\ last.opts.excludeProperNouns
    /\ Len(LastGetUnlimited) = 2
    /\ isProperNoun(mapGet(map, normalizeWord(LastWord))[1])
    /\ last.value = <<LastGetUnlimited[1]>>

(* C16: a limit that is not a positive integer (0, a negative number, a    *)
(* value that is not a number) is ignored: get(w, {limit}) resolves with   *)
(* the same sequence as the same call without limit.                       *)
C16_NonPositiveLimitIgnored ==
    (LastValid("get") /\ ~PositiveLimit(last.opts.limit)) =>
        last.value = LastGetUnlimited

---------------------------------------------------------------------------
(* Properties of the scans                                                 *)

\* The sets stored at the entries idx of the store, in enumeration order.
SetsAt(m, idx) ==
    LET nth(k) == CHOOSE i \in idx : Cardinality({j \in idx : j < i}) = k - 1
    IN  [k \in 1..Cardinality(idx) |-> m[nth(k)].values]

\* The entries of the store whose measure (set size, or key length) lies in lo..hi.
SizeWithin(m, lo, hi) == {i \in 1..Len(m) : lo <= Len(m[i].values) /\ Len(m[i].values) <= hi}
SizeAtLeast(m, lo) == {i \in 1..Len(m) : lo <= Len(m[i].values)}
LengthWithin(m, lo, hi) ==
    {i \in 1..Len(m) : Len(m[i].values) >= 2 /\ lo <= Len(m[i].key) /\ Len(m[i].key) <= hi}
LengthAtLeast(m, lo) ==
    {i \in 1..Len(m) : Len(m[i].values) >= 2 /\ lo <= Len(m[i].key)}

\* The min a range query works with: the given min, or the floor when min
\* is not given or is below the floor.
FlooredMin(min, floor) == IF min.kind = "number" /\ min.n >= floor THEN min.n ELSE floor

LastMin == last.word[1]
LastMax == last.word[2]

(* C17: anagramsByCardinality(min, max) resolves with, in store            *)
(* enumeration order, exactly the stored sets whose size s has             *)
(* lo <= s <= hi, lo being min when min >= 2 and 2 otherwise, hi being     *)
(* unbounded when max is not given (and max when max >= lo); sets of size  *)
(* 1 are never returned.                                                   *)
C17_ByCardinalityRange ==
    last.op = "anagramsByCardinality" =>
        LET lo == FlooredMin(LastMin, 2)
        IN  /\ last.outcome = "resolved"
            /\ \A i \in 1..Len(last.value) : Len(last.value[i]) >= 2
            /\ LastMax = Undefined => last.value = SetsAt(map, SizeAtLeast(map, lo))
            /\ (LastMax.kind = "number" /\ LastMax.n >= lo)
                  => last.value = SetsAt(map, SizeWithin(map, lo, LastMax.n))

\* With a set of two and a set of three stored, a min of 3 returned the set of three only.
C17_Witness ==
    /\ last.op = "anagramsByCardinality" /\ last.word = <<Num(3), Undefined>>
    /\ Len(map) = 2 /\ Len(map[1].values) = 3 /\ Len(map[2].values) = 2
    /\ last.value = <<map[1].values>>

(* C18: in anagramsByCardinality and anagramsByLength, every numeric max   *)
(* below the effective min (0 and negative numbers included) is raised to  *)
(* the effective min, so the query resolves with exactly the sets at the   *)
(* effective min and never as if max were unbounded.                       *)
C18_SmallMaxClampedToMin ==
    /\ (/\ last.op = "anagramsByCardinality"
        /\ LastMax.kind = "number"
        /\ LastMax.n < FlooredMin(LastMin, 2))
       => last.value =
              SetsAt(map, SizeWithin(map, FlooredMin(LastMin, 2), FlooredMin(LastMin, 2)))
    /\ (/\ last.op = "anagramsByLength"
        /\ LastMax.kind = "number"
        /\ LastMax.n < FlooredMin(LastMin, 1))
       => last.value =
              SetsAt(map, LengthWithin(map, FlooredMin(LastMin, 1), FlooredMin(LastMin, 1)))

(* C19 as stated: anagramsByLength(min, max) takes min as 2 when it is not *)
(* given or below 2 and max as unbounded when not given, and resolves      *)
(* with, in store enumeration order, exactly the stored sets of size >= 2  *)
(* whose key length lies within those bounds.                              *)
C19_ByLengthRange_AsStated ==
    last.op = "anagramsByLength" =>
        LET lo == FlooredMin(LastMin, 2)
        IN  /\ LastMax = Undefined => last.value = SetsAt(map, LengthAtLeast(map, lo))
            /\ (LastMax.kind = "number" /\ LastMax.n >= lo)
                  => last.value = SetsAt(map, LengthWithin(map, lo, LastMax.n))

(* C19, amended: the same with the floor of min at 1 instead of 2 (a min   *)
(* not given or below 1 becomes 1), so that the sets of one-letter words   *)
(* are within the default bounds; sets of size < 2 are still left out.     *)
C19_ByLengthRange ==
    last.op = "anagramsByLength" =>
        LET lo == FlooredMin(LastMin, 1)
        IN  /\ last.outcome = "resolved"
            /\ \A i \in 1..Len(last.value) : Len(last.value[i]) >= 2
            /\ LastMax = Undefined => last.value = SetsAt(map, LengthAtLeast(map, lo))
            /\ (LastMax.kind = "number" /\ LastMax.n >= lo)
                  => last.value = SetsAt(map, LengthWithin(map, lo, LastMax.n))

\* With "a" and "A" stored beside a single four-letter word, the query
\* without bounds returned the set of the one-letter words only.
C19_Witness ==
    /\ last.op = "anagramsByLength" /\ last.word = <<Undefined, Undefined>>
    /\ Len(map) = 2
    /\ \E i \in 1..2 : Len(map[i].key) = 1 /\ Len(map[i].values) = 2
                          /\ last.value = <<map[i].values>>
    /\ \E i \in 1..2 : Len(map[i].key) = 4 /\ Len(map[i].values) = 1

\* The store enumerated in the order p.
Reordered(m, p) == [i \in 1..Len(m) |-> m[p[i]]]

AsSet(seq) == {seq[i] : i \in 1..Len(seq)}

\* The entries holding a set of two or more words that no stored set outnumbers.
LargestSets(m) ==
    {i \in 1..Len(m) :
        /\ Len(m[i].values) >= 2
        /\ \A j \in 1..Len(m) : Len(m[j].values) <= Len(m[i].values)}

(* C20: maxCardinalityAnagrams() resolves with exactly the stored sets of  *)
(* size >= 2 whose size is the largest set size in the dictionary, the     *)
(* empty list when no set has size >= 2, and the collection of sets is the *)
(* same for every enumeration order of the store.                          *)
C20_MaxCardinality ==
    last.op = "maxCardinalityAnagrams" =>
        /\ last.outcome = "resolved"
        /\ last.value = SetsAt(map, LargestSets(map))
        /\ \A p \in Permutations(1..Len(map)) :
              AsSet(maxCardinalityAnagrams(Reordered(map, p))) = AsSet(last.value)

\* A set of two enumerated before a set of three: the scan restarted its result.
C20_Witness ==
    /\ last.op = "maxCardinalityAnagrams"
    /\ Len(map) = 2 /\ Len(map[1].values) = 2 /\ Len(map[2].values) = 3
    /\ last.value = <<map[2].values>>

---------------------------------------------------------------------------
(* util.js: the figures stats() reports                                    *)

\* A JavaScript number that is the quotient n / den of two integers, den > 0,
\* and the number that is not one.
Quotient(n, den) == [kind |-> "number", n |-> n, den |-> den]
NaN == [kind |-> "NaN", n |-> 0, den |-> 1]

\* Number.prototype.toString for a non-negative integer, as its decimal digits.
RECURSIVE toDigits(_)
toDigits(n) == IF n < 10 THEN <<n>> ELSE Append(toDigits(n \div 10), n % 10)

\* s < t for two strings of digits: code unit by code unit, a proper prefix first.
RECURSIVE stringLess(_, _)
stringLess(s, t) ==
    IF t = <<>> THEN FALSE
    ELSE IF s = <<>> THEN TRUE
    ELSE IF Head(s) # Head(t) THEN Head(s) < Head(t)
    ELSE stringLess(Tail(s), Tail(t))

\* Array.prototype.sort() with no compare function: the elements are
\* ordered by their string conversions.
RECURSIVE insertByString(_, _)
insertByString(x, arr) ==
    IF arr = <<>> THEN <<x>>
    ELSE IF stringLess(toDigits(Head(arr)), toDigits(x))
    THEN <<Head(arr)>> \o insertByString(x, Tail(arr))
    ELSE <<x>> \o arr

RECURSIVE defaultSort(_)
defaultSort(arr) ==
    IF arr = <<>> THEN <<>>
    ELSE insertByString(arr[Len(arr)], defaultSort(SubSeq(arr, 1, Len(arr) - 1)))

\* util.median: of an empty array, (undefined + undefined) / 2.
util_median(arr) ==
    LET sorted == defaultSort(arr)
        middleIdx == Len(arr) \div 2
    IN  IF Len(arr) % 2 = 1 THEN Quotient(sorted[middleIdx + 1], 1)
        ELSE IF arr = <<>> THEN NaN
        ELSE Quotient(sorted[middleIdx] + sorted[middleIdx + 1], 2)

RECURSIVE sum(_)
sum(arr) == IF arr = <<>> THEN 0 ELSE Head(arr) + sum(Tail(arr))

\* util.average: of an empty array, 0 / 0.
util_average(arr) == IF arr = <<>> THEN NaN ELSE Quotient(sum(arr), Len(arr))

RECURSIVE scanMin(_, _)
scanMin(arr, result) ==
    IF arr = <<>> THEN result
    ELSE scanMin(Tail(arr), IF Head(arr) < result THEN Head(arr) ELSE result)

util_min(arr) == IF arr = <<>> THEN NaN ELSE Quotient(scanMin(Tail(arr), Head(arr)), 1)

RECURSIVE scanMax(_, _)
scanMax(arr, result) ==
    IF arr = <<>> THEN result
    ELSE scanMax(Tail(arr), IF result < Head(arr) THEN Head(arr) ELSE result)

util_max(arr) == IF arr = <<>> THEN NaN ELSE Quotient(scanMax(Tail(arr), Head(arr)), 1)

\* What the scan of stats() collects: the length of every word, in
\* enumeration order, and the size of every set of more than one word.
RECURSIVE wordLengths(_)
wordLengths(m) ==
    IF m = <<>> THEN <<>>
    ELSE [j \in 1..Len(Head(m).values) |-> Len(Head(m).values[j])] \o wordLengths(Tail(m))

\* Fault variant: the size of every set is collected.
RECURSIVE cardinalities_all(_)
cardinalities_all(m) ==
    IF m = <<>> THEN <<>> ELSE <<Len(Head(m).values)>> \o cardinalities_all(Tail(m))

RECURSIVE cardinalities(_)
cardinalities(m) ==
    IF m = <<>> THEN <<>>
    ELSE (IF Len(Head(m).values) > 1 THEN <<Len(Head(m).values)>> ELSE <<>>)
             \o cardinalities(Tail(m))

stats(st) ==
    [wordCount |-> Len(wordLengths(st.map)),
     anagramCount |-> st.anagramCount,
     minWordLength |-> util_min(wordLengths(st.map)),
     maxWordLength |-> util_max(wordLengths(st.map)),
     medianWordLength |-> util_median(wordLengths(st.map)),
     averageWordLength |-> util_average(wordLengths(st.map)),
     minCardinality |-> util_min(cardinalities(st.map)),
     maxCardinality |-> util_max(cardinalities(st.map)),
     medianCardinality |-> util_median(cardinalities(st.map)),
     averageCardinality |-> util_average(cardinalities(st.map))]

---------------------------------------------------------------------------
(* The caller of the figures: a dictionary of words of one, four and       *)
(* eleven letters, asked for its statistics and for its longest anagrams.  *)

\* At most this many words are kept in the dictionary the figures are taken of.
MaxStatsWords == 5

read == <<"r", "e", "a", "d">>
abracadabra == <<"a", "b", "r", "a", "c", "a", "d", "a", "b", "r", "a">>

\* Two keys of four letters with two words each, a key of one letter with
\* two words, and a word of eleven letters with no anagram.
StatsWords == {<<"a">>, <<"A">>, acer, care, dare, read, abracadabra}

StatsAddInputs == {Str(w) : w \in StatsWords}

StatsAdd ==
    \E x \in StatsAddInputs :
        LET r == AnagramService_add(State, x)
        IN  totalWords(r.map) <= MaxStatsWords /\ Complete("add", x, NoOpts, r)

StatsDelete ==
    \E x \in StatsAddInputs, opts \in DeleteOpts :
        Complete("delete", x, opts, AnagramService_delete(State, x, opts))

\* stats() resolves from the callback queued on the scan of the store.
Stats == Complete("stats", <<>>, NoOpts, Resolved(State, stats(State)))

StatsNext == StatsAdd \/ StatsDelete \/ Clear \/ Stats \/ MaxLength \/ Return

StatsSpec == Init /\ [][StatsNext]_vars

---------------------------------------------------------------------------
(* Properties of the figures                                               *)

\* The entries holding a set of two or more words that no such set has longer words than.
LongestSets(m) ==
    {i \in 1..Len(m) :
        /\ Len(m[i].values) >= 2
        /\ \A j \in 1..Len(m) :
              Len(m[j].values) >= 2 => Len(m[j].values[1]) <= Len(m[i].values[1])}

(* C21: maxLengthAnagrams() resolves with exactly the stored sets of size  *)
(* >= 2 whose word length is the greatest word length among the sets of    *)
(* size >= 2 (a longer word stored alone does not count), the empty list   *)
(* when no set has size >= 2, and the collection of sets is the same for   *)
(* every enumeration order of the store.                                   *)
C21_MaxLength ==
    last.op = "maxLengthAnagrams" =>
        /\ last.outcome = "resolved"
        /\ last.value = SetsAt(map, LongestSets(map))
        /\ \A p \in Permutations(1..Len(map)) :
              AsSet(maxLengthAnagrams(Reordered(map, p))) = AsSet(last.value)

\* Two sets of four-letter words tie for the longest while the word of
\* eleven letters is stored alone, enumerated before them.
C21_Witness ==
    /\ last.op = "maxLengthAnagrams"
    /\ Len(map) = 3 /\ map[1].values = <<abracadabra>>
    /\ Len(map[2].values) = 2 /\ Len(map[3].values) = 2
    /\ last.value = <<map[2].values, map[3].values>>

---------------------------------------------------------------------------
(* load(source): the lines of the source arrive as 'line' events, each add *)
(* settles through callbacks queued as microtasks, and the 'close' event   *)
(* resolves the promise of load.  The call in flight is held in last: the  *)
(* lines of the source, the line to come next, the load-level totals, the  *)
(* queue of microtasks and what resolve() was called with.                 *)

\* At most this many lines are in a source.
MaxLines == 2

\* String.prototype.split(/\s+/) of a trimmed line.
RECURSIVE firstToken(_)
firstToken(s) ==
    IF s = <<>> \/ Head(s) = " " THEN <<>> ELSE <<Head(s)>> \o firstToken(Tail(s))

RECURSIVE splitSpaces(_)
splitSpaces(s) ==
    IF s = <<>> THEN <<>>
    ELSE LET token == firstToken(s)
         IN  <<token>> \o splitSpaces(trimStart(SubSeq(s, Len(token) + 1, Len(s))))

\* A callback waiting in the microtask queue.
\*   "added":    the callback of the store's add inside add(word), which
\*               raises the counters of the service and resolves add's promise;
\*   "counted":  the then-callback of ingestWord, which raises the totals of load;
\*   "rejected": the rejection of add's promise passing the then of ingestWord;
\*   "warned":   the catch-callback of ingestWord.
Job(kind, word, anagram) == [kind |-> kind, word |-> word, anagram |-> anagram]

\* ingestWord: the executor of add(word) runs at once (it throws for an
\* invalid word and otherwise changes the store), and the callbacks are queued.
ingestWord(acc, token) ==
    IF ~isValidWord(Str(token))
    THEN [map |-> acc.map, jobs |-> Append(acc.jobs, Job("rejected", 0, 0))]
    ELSE LET word == trim(token)
             result == MemoryAdapter_add(acc.map, normalizeWord(word), word)
         IN  [map |-> result.map,
              jobs |-> Append(acc.jobs, Job("added", addWordCountIncrement(result),
                                            addAnagramCountIncrement(result)))]

\* Fault variant: the first invalid token ends the ingestion of the line.
RECURSIVE ingestWords_abort(_, _)
ingestWords_abort(acc, tokens) ==
    IF tokens = <<>> \/ ~isValidWord(Str(Head(tokens))) THEN acc
    ELSE ingestWords_abort(ingestWord(acc, Head(tokens)), Tail(tokens))

\* tokens.forEach(ingestWord)
RECURSIVE ingestWords(_, _)
ingestWords(acc, tokens) ==
    IF tokens = <<>> THEN acc
    ELSE ingestWords(ingestWord(acc, Head(tokens)), Tail(tokens))

ingestLine(acc, rawLine) ==
    LET line == trim(rawLine)
    IN  IF line = <<>> THEN acc
        ELSE IF ~includes(line, " ") THEN ingestWords(acc, <<line>>)
        ELSE ingestWords(acc, splitSpaces(line))

\* The lines a source is made of: single words, a word to be trimmed, an
\* invalid token alone and between two words, a blank line.
LoadLines ==
    { acer, <<" ", "A", "c", "e", "r", " ">>, <<"-", "a">>, <<>>,
      <<"c", "a", "r", "e", " ", " ", "a", "c", "e", "r">>,
      <<"a", "c", "e", "r", " ", "-", "a", " ", "c", "a", "r", "e">> }

LoadSources == UNION {[1..n -> LoadLines] : n \in 0..MaxLines}

Loading(source, st) ==
    [op |-> "load", word |-> source, opts |-> NoOpts, pre |-> st, outcome |-> "pending",
     value |-> [word |-> 0, anagram |-> 0, next |-> 1, jobs |-> <<>>, inTurn |-> FALSE,
                counts |-> [word |-> 0, anagram |-> 0]]]

\* The executor of load: the reader is created and its handlers registered.
LoadCall ==
    /\ last.op = "none"
    /\ \E source \in LoadSources : last' = Loading(source, State)
    /\ UNCHANGED <<map, wordCount, anagramCount>>

\* An event of the reader is emitted either in a turn of its own, after the
\* microtasks of the turn before have run, or in the turn of the event
\* before it, when no microtask has run yet (the lines of one chunk; the
\* close that follows a last line without a line terminator).
EventMayFire == LastOutcomeOf("load", "pending") /\ (last.value.inTurn \/ last.value.jobs = <<>>)

LineEvent ==
    /\ EventMayFire
    /\ last.value.next <= Len(last.word)
    /\ LET acc == ingestLine([map |-> map, jobs |-> last.value.jobs],
                             last.word[last.value.next])
       IN  /\ map' = acc.map
           /\ last' = [last EXCEPT !.value.next = @ + 1, !.value.jobs = acc.jobs,
                                   !.value.inTurn = TRUE]
    /\ UNCHANGED <<wordCount, anagramCount>>

\* concludeIngest: the reader closes on end of input.
CloseEvent ==
    /\ EventMayFire
    /\ last.value.next > Len(last.word)
    /\ last' = [last EXCEPT !.outcome = "resolved", !.value.inTurn = TRUE,
                            !.value.counts = [word |-> last.value.word,
                                              anagram |-> last.value.anagram]]
    /\ UNCHANGED <<map, wordCount, anagramCount>>

\* The synchronous code of the turn is over and the first callback in the
\* queue runs.  (The settling of the promise that the catch of ingestWord
\* returns has no effect and is left out.)
RunJob ==
    /\ last.op = "load" /\ last.value.jobs # <<>>
    /\ LET job == Head(last.value.jobs)
           rest == Tail(last.value.jobs)
       IN  CASE job.kind = "added" ->
                  /\ wordCount' = wordCount + job.word
                  /\ anagramCount' = anagramCount + job.anagram
                  /\ last' = [last EXCEPT !.value.inTurn = FALSE,
                                !.value.jobs = Append(rest, Job("counted", job.word, job.anagram))]
              [] job.kind = "counted" ->
                  /\ last' = [last EXCEPT !.value.inTurn = FALSE, !.value.jobs = rest,
                                !.value.word = @ + job.word,
                                !.value.anagram = @ + job.anagram]
                  /\ UNCHANGED <<wordCount, anagramCount>>
              [] job.kind = "rejected" ->
                  /\ last' = [last EXCEPT !.value.inTurn = FALSE,
                                !.value.jobs = Append(rest, Job("warned", 0, 0))]
                  /\ UNCHANGED <<wordCount, anagramCount>>
              [] job.kind = "warned" ->
                  /\ last' = [last EXCEPT !.value.inTurn = FALSE, !.value.jobs = rest]
                  /\ UNCHANGED <<wordCount, anagramCount>>
    /\ UNCHANGED map

\* The caller of load goes on with the counts it was given.
LoadReturn ==
    /\ LastOutcomeOf("load", "resolved") /\ last.value.jobs = <<>>
    /\ Return

LoadNext == LoadCall \/ LineEvent \/ CloseEvent \/ RunJob \/ LoadReturn

LoadSpec == Init /\ [][LoadNext]_vars

---------------------------------------------------------------------------
(* Properties of load                                                      *)

(* C22: the counts load(source) resolves with are the sum of the           *)
(* increments of every add it issued, that is, the number of words and of  *)
(* anagrams the load put into the dictionary, in every interleaving of the *)
(* line events, the callbacks of the adds and the close event.             *)
C22_LoadCountsEveryAdd ==
    LastOutcomeOf("load", "resolved") =>
        /\ last.value.counts.word = totalWords(map) - totalWords(last.pre.map)
        /\ last.value.counts.anagram =
              scanAnagramCount(map) - scanAnagramCount(last.pre.map)

\* The tokens of a line, as ingestLine takes them.
TokensOf(rawLine) ==
    IF trim(rawLine) = <<>> THEN <<>> ELSE splitSpaces(trim(rawLine))

\* The store after add of every token that passes the validator, in order,
\* and of no other.
RECURSIVE AddValidTokens(_, _)
AddValidTokens(m, tokens) ==
    IF tokens = <<>> THEN m
    ELSE AddValidTokens(IF isValidWord(Str(Head(tokens)))
                        THEN AnagramService_add([map |-> m, wordCount |-> 0,
                                                  anagramCount |-> 0], Str(Head(tokens))).map
                        ELSE m,
                        Tail(tokens))

RECURSIVE AddValidLines(_, _, _)
AddValidLines(m, source, n) ==
    IF n = 0 THEN m
    ELSE AddValidTokens(AddValidLines(m, source, n - 1), TokensOf(source[n]))

\* The increments that callbacks still in the queue are going to add to the totals of load.
RECURSIVE QueuedIncrements(_)
QueuedIncrements(jobs) ==
    IF jobs = <<>> THEN [word |-> 0, anagram |-> 0]
    ELSE LET rest == QueuedIncrements(Tail(jobs))
         IN  [word |-> Head(jobs).word + rest.word,
              anagram |-> Head(jobs).anagram + rest.anagram]

(* C23: during load an invalid token does not abort the ingestion: the     *)
(* dictionary is what adding the valid tokens of the lines read so far, in *)
(* order and without the invalid ones, makes of it, and the totals of load *)
(* together with the increments still queued are the words and anagrams    *)
(* those valid tokens put in; an invalid token adds nothing to either.     *)
C23_InvalidTokenSkipped ==
    last.op = "load" =>
        LET queued == QueuedIncrements(last.value.jobs)
        IN  /\ map = AddValidLines(last.pre.map, last.word, last.value.next - 1)
            /\ last.value.word + queued.word = totalWords(map) - totalWords(last.pre.map)
            /\ last.value.anagram + queued.anagram =
                  scanAnagramCount(map) - scanAnagramCount(last.pre.map)

\* The line "acer -a care" was read into an empty dictionary and every
\* callback has run: both words are stored and counted.
C23_Witness ==
    /\ last.op = "load" /\ last.pre.map = <<>>
    /\ last.word = << <<"a", "c", "e", "r", " ", "-", "a", " ", "c", "a", "r", "e">> >>
    /\ last.value.next = 2 /\ last.value.jobs = <<>>
    /\ StoredWords(map) = {acer, care}
    /\ last.value.word = 2 /\ last.value.anagram = 1

\* The places of the stored words: entry and position within the set.
WordPlaces(m) == UNION {{<<i, j>> : j \in 1..Len(m[i].values)} : i \in 1..Len(m)}

\* The entries of the store that hold two or more words.
AnagramEntries(m) == {i \in 1..Len(m) : Len(m[i].values) >= 2}

\* x and y are the same number.
SameNumber(x, y) == x.kind = y.kind /\ (x.kind = "number" => x.n * y.den = y.n * x.den)

RECURSIVE SumOver(_, _)
SumOver(S, f) ==
    IF S = {} THEN 0 ELSE LET x == CHOOSE y \in S : TRUE IN f[x] + SumOver(S \ {x}, f)

(* C24: whenever no operation is in progress, stats() reports as wordCount *)
(* what wordCount() returns and as anagramCount what anagramCount()        *)
(* returns, and its cardinality figures are taken from the sets of two or  *)
(* more words only: the least, the greatest and the mean of their sizes,   *)
(* so that minCardinality is never below 2.                                *)
C24_StatsCounts ==
    last.op = "stats" =>
        LET size == [i \in AnagramEntries(map) |-> Len(map[i].values)]
            figures == last.value
        IN  /\ last.outcome = "resolved"
            /\ figures.wordCount = wordCount
            /\ figures.anagramCount = anagramCount
            /\ figures.minCardinality.kind = "number" => figures.minCardinality.n >= 2
            /\ IF AnagramEntries(map) = {}
               THEN /\ figures.minCardinality = NaN /\ figures.maxCardinality = NaN
                    /\ figures.averageCardinality = NaN
               ELSE /\ \E i \in AnagramEntries(map) :
                          /\ SameNumber(figures.minCardinality, Quotient(size[i], 1))
                          /\ \A j \in AnagramEntries(map) : size[i] <= size[j]
                    /\ \E i \in AnagramEntries(map) :
                          /\ SameNumber(figures.maxCardinality, Quotient(size[i], 1))
                          /\ \A j \in AnagramEntries(map) : size[j] <= size[i]
                    /\ SameNumber(figures.averageCardinality,
                                  Quotient(SumOver(AnagramEntries(map), size),
                                           Cardinality(AnagramEntries(map))))

\* The figures were taken of a dictionary with a word stored alone, a set
\* of two and a set of three.
C24_Witness ==
    /\ last.op = "stats"
    /\ \E i \in 1..Len(map) : Len(map[i].values) = 1
    /\ \E i \in 1..Len(map) : Len(map[i].values) = 2
    /\ wordCount = 5 /\ anagramCount = 2
    /\ last.value.wordCount = 5 /\ last.value.minCardinality = Quotient(2, 1)

\* The k-th smallest of the numbers f[x], x in S, counted with repetition.
Kth(S, f, k) ==
    CHOOSE v \in {f[x] : x \in S} :
        /\ Cardinality({x \in S : f[x] < v}) < k
        /\ k <= Cardinality({x \in S : f[x] <= v})

\* The median of the numbers f[x], x in S, in numeric order.
NumericMedian(S, f) ==
    LET n == Cardinality(S)
    IN  IF n = 0 THEN NaN
        ELSE IF n % 2 = 1 THEN Quotient(Kth(S, f, (n + 1) \div 2), 1)
        ELSE Quotient(Kth(S, f, n \div 2) + Kth(S, f, n \div 2 + 1), 2)

(* C25: medianWordLength and medianCardinality of stats() are the middle   *)
(* element of the word lengths, and of the sizes of the sets of two or     *)
(* more words, in numeric order (the mean of the two middle elements when  *)
(* their number is even), also when words of ten or more letters are       *)
(* stored beside shorter ones.                                             *)
C25_MedianIsNumeric ==
    last.op = "stats" =>
        /\ SameNumber(last.value.medianWordLength,
                      NumericMedian(WordPlaces(map),
                                    [p \in WordPlaces(map) |-> Len(map[p[1]].values[p[2]])]))
        /\ SameNumber(last.value.medianCardinality,
                      NumericMedian(AnagramEntries(map),
                                    [i \in AnagramEntries(map) |-> Len(map[i].values)]))

---------------------------------------------------------------------------
(* Properties of the order and the membership of what get returns          *)

\* sub lists entries of anagramSet, each once, in the order they are stored in.
InStoredOrder(sub, anagramSet) ==
    /\ \A i \in 1..Len(sub) : includes(anagramSet, sub[i])
    /\ \A i \in 1..Len(sub), j \in 1..Len(sub) :
          i < j => indexOf(anagramSet, sub[i]) < indexOf(anagramSet, sub[j])

(* C26: within each set the stored order is the order of insertion: add    *)
(* appends a new word at the end of its set, delete without                *)
(* includeAnagrams takes one word out and leaves the others in their       *)
(* order, neither touches another set, and get returns its entries in the  *)
(* order they are stored in.                                               *)
C26_InsertionOrder ==
    LET key == normalizeWord(LastWord)
        before == SetAt(last.pre.map, key)
    IN  /\ LastValid("add") =>
              /\ SetAt(map, key) = IF includes(before, LastWord) THEN before
                                   ELSE Append(before, LastWord)
              /\ \A k \in AllKeys(map, last.pre.map) \ {key} :
                    SetAt(map, k) = SetAt(last.pre.map, k)
        /\ (LastValid("delete") /\ ~last.opts.includeAnagrams) =>
              /\ SetAt(map, key) = Without(before, LastWord)
              /\ \A k \in AllKeys(map, last.pre.map) \ {key} :
                    SetAt(map, k) = SetAt(last.pre.map, k)
        /\ LastValid("get") => InStoredOrder(last.value, SetAt(map, key))

\* A third word was added to a set of two and stands behind them.
C26_Witness ==
    /\ LastValid("add") /\ last.value.word = 1
    /\ Len(SetAt(last.pre.map, normalizeWord(LastWord))) = 2
    /\ SetAt(map, normalizeWord(LastWord))
          = Append(SetAt(last.pre.map, normalizeWord(LastWord)), LastWord)

(* C27: every string get(w, opts) resolves with is an entry of the set     *)
(* stored at normalize(w); in particular get(w, {includeInput: true}) for  *)
(* a lowercase w that is known only through its proper-noun counterpart    *)
(* does not put the unstored w into the result.                            *)
C27_GetReturnsStoredOnly ==
    LastValid("get") =>
        /\ last.outcome = "resolved"
        /\ \A i \in 1..Len(last.value) :
              includes(SetAt(map, normalizeWord(LastWord)), last.value[i])

\* "acer" was looked up with includeInput while only "Acer" of the two is
\* stored: "Acer" came back, "acer" did not.
C27_Witness ==
    /\ last.op = "get" /\ last.word = Str(acer) /\ last.opts = DefaultBut(TRUE)
    /\ acer \notin StoredWords(map) /\ Acer \in StoredWords(map)
    /\ includes(last.value, Acer) /\ ~includes(last.value, acer)

---------------------------------------------------------------------------
(* normalizeWord as a function of two valid words                          *)

\* The words the keys are compared of: anagrams, words that differ in
\* case, in the number of times a letter occurs, and in their hyphens.
NormalizeWords ==
    { acer, Acer, care, <<"a", "b">>, <<"b", "a">>, <<"a", "a", "b">>, <<"a", "b", "b">>,
      <<"a", "b", "a">>, <<"a", "-", "b">>, <<"b", "-", "a">>, <<"A", "-", "B">>,
      <<"a", "-", "b", "-", "a">> }

NormalizeInit ==
    /\ map = <<>>
    /\ wordCount = 0
    /\ anagramCount = 0
    /\ \E a \in NormalizeWords, b \in NormalizeWords :
          /\ isValidWord(Str(a)) /\ isValidWord(Str(b))
          /\ last = [NoLast EXCEPT !.op = "words", !.word = <<a, b>>]

\* The keys of the two words are computed.
Normalize ==
    /\ last.op = "words"
    /\ last' = [last EXCEPT !.op = "normalizeWord", !.outcome = "returned",
                            !.value = <<normalizeWord(last.word[1]),
                                        normalizeWord(last.word[2])>>]
    /\ UNCHANGED <<map, wordCount, anagramCount>>

NormalizeSpec == NormalizeInit /\ [][Normalize]_vars

\* How many times the character c, in either case, occurs in w.
Occurrences(w, c) == Cardinality({i \in 1..Len(w) : toLowerCaseChar(w[i]) = c})

(* C28: for all valid words a and b, normalize(a) = normalize(b) exactly   *)
(* when a and b have the same characters the same number of times each,    *)
(* case ignored and hyphens counted.                                       *)
C28_NormalizeIsMultiset ==
    last.op = "normalizeWord" =>
        ((last.value[1] = last.value[2])
            <=> \A c \in LowerLetters \cup {"-"} :
                   Occurrences(last.word[1], c) = Occurrences(last.word[2], c))

\* "aab" and "abb" are made of the same letters and have different keys.
C28_Witness ==
    /\ last.op = "normalizeWord"
    /\ last.word = << <<"a", "a", "b">>, <<"a", "b", "b">> >>
    /\ last.value[1] # last.value[2]

---------------------------------------------------------------------------
(* server.js: the handlers of POST /words.json, DELETE /words/:word and    *)
(* GET /anagrams/:word, each run from the request to its response          *)

\* At most this many entries are in the words array of a POST.
MaxBatch == 3

\* The characters \w matches among those used here.
WordChars == Letters \cup {"1", "j", "s", "o", "n"}

\* util.stripExtension: (str || '').replace(/\.\w+$/, '')
stripExtension(str) ==
    LET dots == {i \in 1..Len(str) :
                    /\ str[i] = "." /\ i < Len(str)
                    /\ \A j \in (i + 1)..Len(str) : str[j] \in WordChars}
    IN  IF dots = {} THEN str
        ELSE SubSeq(str, 1, (CHOOSE i \in dots : \A k \in dots : i <= k) - 1)

Response(status, body) == [status |-> status, body |-> body]

NoBody == [message |-> <<>>]

\* `/anagrams/${word}`
anagramsLink(word) == <<"/", "a", "n", "a", "g", "r", "a", "m", "s", "/">> \o word

\* Fault variant: the first add that fails ends the batch.
RECURSIVE addEach_abort(_, _, _)
addEach_abort(st, words, promises) ==
    IF words = <<>> THEN [st |-> st, promises |-> promises]
    ELSE LET r == AnagramService_add(st, Head(words))
         IN  IF r.outcome = "rejected"
             THEN [st |-> st, promises |-> promises \o [i \in 1..Len(words) |->
                                              [outcome |-> "rejected", value |-> words[i]]]]
             ELSE addEach_abort([map |-> r.map, wordCount |-> r.wordCount,
                                 anagramCount |-> r.anagramCount],
                                Tail(words),
                                Append(promises, [outcome |-> r.outcome, value |-> r.value]))

\* words.forEach(word => promises.push(anagramService.add(word))), every
\* add settled: what each promise settled with and the service afterwards.
RECURSIVE addEach(_, _, _)
addEach(st, words, promises) ==
    IF words = <<>> THEN [st |-> st, promises |-> promises]
    ELSE LET r == AnagramService_add(st, Head(words))
         IN  addEach([map |-> r.map, wordCount |-> r.wordCount,
                      anagramCount |-> r.anagramCount],
                     Tail(words),
                     Append(promises, [outcome |-> r.outcome, value |-> r.value]))

\* promise.catch(ex => ex) turns a rejection into the message string, whose
\* properties word and anagram are undefined.
countsOf(promise) ==
    IF promise.outcome = "resolved" THEN promise.value
    ELSE [word |-> 0, anagram |-> 0]

\* results.forEach((counts, i) => ...): the inventory of the words added.
RECURSIVE inventory(_, _, _, _)
inventory(results, words, i, acc) ==
    IF i > Len(results) THEN acc
    ELSE LET counts == countsOf(results[i])
         IN  inventory(results, words, i + 1,
                       IF counts.word # 0
                       THEN [wordsAdded |-> acc.wordsAdded + counts.word,
                             anagramsAdded |-> acc.anagramsAdded + counts.anagram,
                             successWords |-> Append(acc.successWords, words[i])]
                       ELSE acc)

\* The body of a POST: an object whose member words is an array of values,
\* or anything else.
WordsArray(items) == [isArray |-> TRUE, items |-> items]
NotAnArray == [isArray |-> FALSE, items |-> <<>>]

respondAdd(st, words) ==
    IF ~words.isArray
    THEN Settled(st.map, st.wordCount, st.anagramCount, "responded", Response(400, NoBody))
    ELSE LET added == addEach(st, words.items, <<>>)
             taken == inventory(added.promises, words.items, 1,
                                [wordsAdded |-> 0, anagramsAdded |-> 0, successWords |-> <<>>])
         IN  Settled(added.st.map, added.st.wordCount, added.st.anagramCount, "responded",
                     IF taken.wordsAdded # 0
                     THEN Response(201,
                              [counts |-> [word |-> taken.wordsAdded,
                                           anagram |-> taken.anagramsAdded],
                               words |-> [i \in 1..Len(taken.successWords) |->
                                             anagramsLink(taken.successWords[i].v)]])
                     ELSE Response(204, NoBody))

\* Fault variant: every delete that did not fail is answered No Content.
deleteStatus_noContent(deleted) == 204

deleteStatus(deleted) == IF deleted # 0 THEN 204 ELSE 404

respondWordsDelete(st, param, opts) ==
    LET word == stripExtension(param)
    IN  IF word = <<>>
        THEN Settled(st.map, st.wordCount, st.anagramCount, "responded", Response(400, NoBody))
        ELSE LET r == AnagramService_delete(st, Str(word), opts)
             IN  Settled(r.map, r.wordCount, r.anagramCount, "responded",
                         IF r.outcome = "rejected"
                         THEN Response(400, [message |-> r.value])
                         ELSE Response(deleteStatus(r.value), NoBody))

\* respondAnagramsGet for a request whose query holds options of get only:
\* without a word none of the dictionary queries is asked for, and the
\* answer is Bad Request.
respondAnagramsGet(st, param, opts) ==
    LET word == stripExtension(param)
    IN  IF word = <<>>
        THEN Settled(st.map, st.wordCount, st.anagramCount, "responded", Response(400, NoBody))
        ELSE LET r == AnagramService_get(st, Str(word), opts)
             IN  Settled(r.map, r.wordCount, r.anagramCount, "responded",
                         IF r.outcome = "rejected"
                         THEN Response(400, [message |-> r.value])
                         ELSE Response(200, [anagrams |-> r.value]))

\* The entries of a words array: words, a word with white space before it,
\* an invalid word and a value that is not a string.
BatchValues ==
    {Str(acer), Str(Acer), Str(care), Str(<<" ", "a", "c", "e", "r">>), Str(<<"-", "a">>),
     NotAString}

Batches == {NotAnArray} \cup {WordsArray(items) : items \in UNION {[1..n -> BatchValues] : n \in 0..MaxBatch}}

\* The word parameter of a path, as the router hands it over.
json == <<".", "j", "s", "o", "n">>

WordParams ==
    {acer, Acer, care, acer \o json, Acer \o json, <<"a", "1">> \o json, <<"-", "a">>,
     <<"a", "c", "e", "r", ".">>, json}

Post == \E words \in Batches : Complete("POST /words.json", words, NoOpts, respondAdd(State, words))

WordsDelete ==
    \E param \in WordParams, opts \in DeleteOpts :
        Complete("DELETE /words/:word", param, opts, respondWordsDelete(State, param, opts))

AnagramsGet ==
    \E param \in WordParams, opts \in GetOpts :
        Complete("GET /anagrams/:word", param, opts, respondAnagramsGet(State, param, opts))

ServerNext == Post \/ WordsDelete \/ AnagramsGet \/ Return

ServerSpec == Init /\ [][ServerNext]_vars

---------------------------------------------------------------------------
(* Properties of the request layer                                         *)

LastItems == last.word.items

\* The store after add of every entry of a batch that passes the validator.
RECURSIVE AddValidWords(_, _)
AddValidWords(m, items) ==
    IF items = <<>> THEN m
    ELSE AddValidWords(IF isValidWord(Head(items))
                       THEN AnagramService_add([map |-> m, wordCount |-> 0,
                                                 anagramCount |-> 0], Head(items)).map
                       ELSE m,
                       Tail(items))

\* The entries of a batch that put a new word into the store m: valid, not
\* stored before, and not given earlier in the batch.
NewEntries(m, items) ==
    {i \in 1..Len(items) :
        /\ isValidWord(items[i])
        /\ trim(items[i].v) \notin StoredWords(m)
        /\ \A j \in 1..(i - 1) : isValidWord(items[j]) => trim(items[j].v) # trim(items[i].v)}

\* The entries idx of a batch, in the order of the batch.
EntriesAt(items, idx) ==
    LET nth(k) == CHOOSE i \in idx : Cardinality({j \in idx : j < i}) = k - 1
    IN  [k \in 1..Cardinality(idx) |-> items[nth(k)]]

\* What a batch POST answers apart from the list of words: Created with the
\* words and anagrams the batch put in, No Content when it put in none; and
\* every valid entry of the batch is stored, whatever stands beside it.
BatchCounted ==
    LET wordsAdded == totalWords(map) - totalWords(last.pre.map)
        anagramsAdded == scanAnagramCount(map) - scanAnagramCount(last.pre.map)
    IN  /\ map = AddValidWords(last.pre.map, LastItems)
        /\ last.value.status = IF wordsAdded > 0 THEN 201 ELSE 204
        /\ wordsAdded > 0 =>
              last.value.body.counts = [word |-> wordsAdded, anagram |-> anagramsAdded]

IsBatchPost == last.op = "POST /words.json" /\ last.word.isArray

\* C29 as stated: the list of a 201 names exactly the words that were newly added.
C29_BatchAdd_AsStated ==
    IsBatchPost =>
        /\ BatchCounted
        /\ last.value.status = 201 =>
              AsSet(last.value.body.words) =
                  {anagramsLink(w) : w \in StoredWords(map) \ StoredWords(last.pre.map)}

(* C29: a batch POST of words answers 201 with counts equal to the sum of  *)
(* the increments of its adds, and with the list of exactly the entries    *)
(* whose add put a new word in, each as it was given in the batch (with    *)
(* the white space around it that add trims off), when at least one word   *)
(* was added, and 204 when none was; an invalid or duplicate entry never   *)
(* keeps the other words of the batch from being added.                    *)
C29_BatchAdd ==
    IsBatchPost =>
        /\ BatchCounted
        /\ last.value.status = 201 =>
              LET given == EntriesAt(LastItems, NewEntries(last.pre.map, LastItems))
              IN  last.value.body.words = [k \in 1..Len(given) |-> anagramsLink(given[k].v)]

\* A batch of a stored word, an invalid word and a new word was posted:
\* Created, one word, and the new word alone in the list.
C29_Witness ==
    /\ last.op = "POST /words.json"
    /\ last.word = WordsArray(<<Str(acer), Str(<<"-", "a">>), Str(care)>>)
    /\ StoredWords(last.pre.map) = {acer}
    /\ last.value = Response(201, [counts |-> [word |-> 1, anagram |-> 1],
                                   words |-> <<anagramsLink(care)>>])
    /\ StoredWords(map) = {acer, care}

LastParamWord == stripExtension(last.word)

(* C30: GET or DELETE of an invalid word answers 400; a DELETE, with or    *)
(* without includeAnagrams, that removed no word answers 404 and one that  *)
(* removed at least one word answers 204; GET of a valid word that is not  *)
(* known answers 200 with an empty list.                                   *)
C30_StatusOfOutcome ==
    LET removed == totalWords(last.pre.map) - totalWords(map)
        anagramSet == SetAt(map, normalizeWord(trim(LastParamWord)))
    IN  /\ (last.op \in {"DELETE /words/:word", "GET /anagrams/:word"}
               /\ ~isValidWord(Str(LastParamWord)))
              => (last.value.status = 400 /\ map = last.pre.map)
        /\ (last.op = "DELETE /words/:word" /\ isValidWord(Str(LastParamWord)))
              => last.value.status = IF removed = 0 THEN 404 ELSE 204
        /\ (/\ last.op = "GET /anagrams/:word" /\ isValidWord(Str(LastParamWord))
            /\ \A i \in 1..Len(anagramSet) :
                  anagramSet[i] # LastParamWord /\ ~sameWord(LastParamWord, anagramSet[i]))
              => last.value = Response(200, [anagrams |-> <<>>])

\* "care" was asked to be deleted with its anagrams while only "acer" is
\* stored: Not Found, and "acer" is still there.
C30_Witness ==
    /\ last.op = "DELETE /words/:word" /\ last.word = care /\ last.opts.includeAnagrams
    /\ StoredWords(last.pre.map) = {acer} /\ StoredWords(map) = {acer}
    /\ last.value.status = 404

---------------------------------------------------------------------------
(* The store called on its own: add and delete of the MemoryAdapter with   *)
(* every kind of selector, for keys and values of the caller's choosing.   *)

AdapterKeys == {normalizeWord(acer), <<"a">>}

AdapterValues == {acer, Acer, care}

AdapterSelectors ==
    {DeleteAll} \cup {DeleteValue(v) : v \in AdapterValues}
        \cup {DeleteIfMember(v) : v \in AdapterValues}

\* The promise of a store call is resolved in its executor.
AdapterResolved(result) ==
    Settled(result.map, wordCount, anagramCount, "resolved",
            [affected |-> result.affected, size |-> result.size])

AdapterAdd ==
    \E key \in AdapterKeys, val \in AdapterValues :
        Complete("MemoryAdapter.add", <<key, DeleteValue(val)>>, NoOpts,
                 AdapterResolved(MemoryAdapter_add(map, key, val)))

AdapterDelete ==
    \E key \in AdapterKeys, val \in AdapterSelectors :
        Complete("MemoryAdapter.delete", <<key, val>>, NoOpts,
                 AdapterResolved(MemoryAdapter_delete(map, key, val)))

AdapterNext == AdapterAdd \/ AdapterDelete \/ Return

AdapterSpec == Init /\ [][AdapterNext]_vars

---------------------------------------------------------------------------
(* Properties of the store                                                 *)

LastKey == last.word[1]

Distance(a, b) == IF a >= b THEN a - b ELSE b - a

(* C33: for every add and delete call of the store, with a value, with a   *)
(* predicate generator or with no selector, the reported size is the size  *)
(* of the key's set after the call and the reported affected is the        *)
(* absolute difference of its sizes before and after; for add, affected is *)
(* 0 or 1, and {affected: 1, size: 1} is reported exactly when the key was *)
(* absent before.                                                          *)
C33_SetOpResult ==
    last.op \in {"MemoryAdapter.add", "MemoryAdapter.delete"} =>
        LET before == SetAt(last.pre.map, LastKey)
            after == SetAt(map, LastKey)
        IN  /\ last.outcome = "resolved"
            /\ last.value.size = Len(after)
            /\ last.value.affected = Distance(Len(before), Len(after))
            /\ last.op = "MemoryAdapter.add" =>
                  /\ last.value.affected \in {0, 1}
                  /\ (last.value = [affected |-> 1, size |-> 1])
                        <=> ~mapHas(last.pre.map, LastKey)

\* A value was deleted from a set of three and the store reports the two left.
C33_Witness ==
    /\ last.op = "MemoryAdapter.delete" /\ last.word[2].kind = "value"
    /\ Len(SetAt(last.pre.map, LastKey)) = 3
    /\ last.value = [affected |-> 1, size |-> 2]

(* C34: deleting one member of a set of k words leaves a stored set of     *)
(* k - 1: a set brought down to one word stays stored (the word is known,  *)
(* get finds no anagram of it and returns it with includeInput), a set     *)
(* brought down to no word has its key removed, and in every reachable     *)
(* state no key of the store maps to an empty set.                         *)
C34_NoEmptySet ==
    /\ \A i \in 1..Len(map) : Len(map[i].values) >= 1
    /\ (LastValid("delete") /\ ~last.opts.includeAnagrams /\ last.value = 1) =>
          LET key == normalizeWord(LastWord)
              before == SetAt(last.pre.map, key)
              after == SetAt(map, key)
          IN  /\ Len(after) = Len(before) - 1
              /\ mapHas(map, key) <=> Len(before) >= 2
              /\ Len(before) = 2 =>
                    /\ AnagramService_get(State, Str(after[1]), NoOpts).value = <<>>
                    /\ AnagramService_get(State, Str(after[1]), DefaultBut(TRUE)).value
                          = <<after[1]>>

\* One of two anagrams was deleted and the other stays stored alone.
C34_Witness ==
    /\ LastValid("delete") /\ ~last.opts.includeAnagrams /\ last.value = 1
    /\ Len(SetAt(last.pre.map, normalizeWord(LastWord))) = 2
    /\ Len(SetAt(map, normalizeWord(LastWord))) = 1
    /\ wordCount = 1 /\ anagramCount = 0

(* C35: add(w) and delete(w, opts) change at most the set stored at        *)
(* normalize(w): the set of every other key has the contents and the order *)
(* it had before the call, also for a delete with includeAnagrams.         *)
C35_OtherSetsUntouched ==
    (LastValid("add") \/ LastValid("delete")) =>
        \A k \in AllKeys(map, last.pre.map) \ {normalizeWord(LastWord)} :
            SetAt(map, k) = SetAt(last.pre.map, k)

\* A set of two was deleted as a group while a word of another key is
\* stored, enumerated after it.
C35_Witness ==
    /\ LastValid("delete") /\ last.opts.includeAnagrams /\ last.value = 2
    /\ Len(last.pre.map) = 2 /\ last.pre.map[1].key = normalizeWord(LastWord)
    /\ map = <<last.pre.map[2]>>

---------------------------------------------------------------------------
(* sameWord as a function of a candidate and a target                      *)

\* The strings compared: words that differ in the case of a first letter,
\* of an inner letter, of the first letter of a component, in the place and
\* the number of their hyphens, in length, and the empty string.
SameWordStrings ==
    { <<>>, <<"a">>, <<"A">>, acer, Acer, <<"a", "C", "e", "r">>, care,
      <<"a", "b", "c">>, <<"a", "-", "b">>, <<"A", "-", "b">>, <<"a", "-", "B">>,
      <<"A", "-", "B">>, <<"a", "b", "-", "c">>, <<"a", "-", "b", "c">>,
      <<"A", "-", "b", "c">>, <<"a", "-", "b", "-", "c">>, <<"A", "-", "b", "-", "C">> }

SameWordInit ==
    /\ map = <<>>
    /\ wordCount = 0
    /\ anagramCount = 0
    /\ \E word \in SameWordStrings, target \in SameWordStrings :
          last = [NoLast EXCEPT !.op = "strings", !.word = <<word, target>>]

\* The candidate is compared with the target.
SameWord ==
    /\ last.op = "strings"
    /\ last' = [last EXCEPT !.op = "sameWord", !.outcome = "returned",
                            !.value = sameWord(last.word[1], last.word[2])]
    /\ UNCHANGED <<map, wordCount, anagramCount>>

SameWordSpec == SameWordInit /\ [][SameWord]_vars

\* The places of the hyphens of s, with a place before and one after s.
Cuts(s) == {0, Len(s) + 1} \cup {i \in 1..Len(s) : s[i] = "-"}

\* The hyphen-separated components of s, in order.
Components(s) ==
    LET cut(k) == CHOOSE i \in Cuts(s) : Cardinality({j \in Cuts(s) : j < i}) = k
    IN  [k \in 1..(Cardinality(Cuts(s)) - 1) |-> SubSeq(s, cut(k - 1) + 1, cut(k) - 1)]

\* s with only its first character uppercased.
Capitalised(s) == IF s = <<>> THEN s ELSE <<toUpperCaseChar(s[1])>> \o Tail(s)

(* C38: sameWord(candidate, target) is false when the lengths differ and   *)
(* true when the strings are equal; for other strings, when target         *)
(* contains a hyphen it is true exactly when candidate has as many         *)
(* hyphen-separated components as target and sameWord holds for each pair  *)
(* of corresponding components; otherwise it is true exactly when          *)
(* candidate with only its first character uppercased equals target.       *)
C38_SameWord ==
    last.op = "sameWord" =>
        LET candidate == last.word[1]
            target == last.word[2]
        IN  last.value =
               IF Len(candidate) # Len(target) THEN FALSE
               ELSE IF candidate = target THEN TRUE
               ELSE IF includes(target, "-")
               THEN /\ Len(Components(candidate)) = Len(Components(target))
                    /\ \A k \in 1..Len(Components(target)) :
                          LET c == Components(candidate)[k]
                              t == Components(target)[k]
                          IN  Len(c) = Len(t) /\ (c = t \/ Capitalised(c) = t)
               ELSE Capitalised(candidate) = target

\* "a-b-c" is the same word as "A-b-C": two of three components match by
\* their uppercased first letter, one as it is.
C38_Witness ==
    /\ last.op = "sameWord"
    /\ last.word = << <<"a", "-", "b", "-", "c">>, <<"A", "-", "b", "-", "C">> >>
    /\ last.value = TRUE

---------------------------------------------------------------------------
(* Properties of the matching of a query word against the stored entries   *)

\* entry is query, or query with the first letter of some of its
\* hyphen-separated components uppercased.
OneWay(query, entry) ==
    /\ Len(query) = Len(entry)
    /\ \A i \in 1..Len(query) :
          \/ entry[i] = query[i]
          \/ /\ entry[i] = toUpperCaseChar(query[i])
             /\ i = 1 \/ query[i - 1] = "-"

HasUpper(s) == \E i \in 1..Len(s) : s[i] \in UpperLetters

\* The options of get that filter nothing but the input word.
LastOptsPlain == ~last.opts.excludeProperNouns /\ last.opts.limit = Undefined

(* C37: matching is one-directional: a query word matches a stored entry   *)
(* when it is string-equal to it or when uppercasing the first letter of   *)
(* the query, component by component, gives the entry, and a capitalised   *)
(* query never matches an entry that is all lowercase.  get(w) with        *)
(* includeInput finds something, and delete(w, {includeAnagrams: true})    *)
(* removes something, exactly when w matches an entry of the set at        *)
(* normalize(w) in this way; with only lowercase entries stored a query    *)
(* with an uppercase letter gets nothing and deletes nothing.              *)
C37_MatchingOneWay ==
    LET before == SetAt(last.pre.map, normalizeWord(LastWord))
        matched == \E i \in 1..Len(before) : OneWay(LastWord, before[i])
        lowerOnly == \A i \in 1..Len(before) : ~HasUpper(before[i])
    IN  /\ (LastValid("get") /\ last.opts.includeInput /\ LastOptsPlain) =>
              (last.value # <<>> <=> matched)
        /\ (LastValid("get") /\ ~matched) => last.value = <<>>
        /\ (LastValid("delete") /\ last.opts.includeAnagrams) =>
              /\ last.value > 0 <=> matched
              /\ ~matched => map = last.pre.map
        /\ ((LastValid("get") \/ LastValid("delete")) /\ HasUpper(LastWord) /\ lowerOnly) =>
              ~matched

\* With only "acer" and "care" stored, delete("Acer", {includeAnagrams:
\* true}) removed nothing.
C37_Witness ==
    /\ last.op = "delete" /\ last.word = Str(Acer) /\ last.opts.includeAnagrams
    /\ StoredWords(last.pre.map) = {acer, care}
    /\ last.value = 0 /\ map = last.pre.map

---------------------------------------------------------------------------
(* Properties of add followed by delete                                    *)

\* The service as add(x) leaves it, and as delete(x) leaves it after that.
AfterAdd(st, x) ==
    LET r == AnagramService_add(st, x)
    IN  [map |-> r.map, wordCount |-> r.wordCount, anagramCount |-> r.anagramCount]

AfterAddDelete(st, x) ==
    LET r == AnagramService_delete(AfterAdd(st, x), x, NoOpts)
    IN  [map |-> r.map, wordCount |-> r.wordCount, anagramCount |-> r.anagramCount]

(* C39: for every valid word w that is not stored and every state of the   *)
(* dictionary, add(w) followed by delete(w) without includeAnagrams gives  *)
(* back every stored set, in contents and order, and both counters as they *)
(* were before the add.                                                    *)
C39_AddDeleteRestores ==
    \A x \in Inputs :
        (isValidWord(x) /\ trim(x.v) \notin StoredWords(map)) =>
            /\ AnagramService_add(State, x).value = [word |-> 1, anagram |->
                  IF mapHas(map, normalizeWord(trim(x.v))) THEN 1 ELSE 0]
            /\ AnagramService_delete(AfterAdd(State, x), x, NoOpts).value = 1
            /\ AfterAddDelete(State, x) = State

\* "care" has just been deleted from behind "acer", where an add had put
\* it: the dictionary is the one from before that add.
C39_Witness ==
    /\ last.op = "delete" /\ last.word = Str(care) /\ ~last.opts.includeAnagrams
    /\ last.value = 1
    /\ care \notin StoredWords(map) /\ acer \in StoredWords(map)
    /\ AfterAdd(State, last.word) = last.pre

---------------------------------------------------------------------------
(* The reader: a dictionary of five words and every query asked of it      *)

ReadWords == {acer, Acer, care, <<"a">>, <<"A">>}

ReadInputs == {Str(w) : w \in ReadWords} \cup {Str(<<"-", "a">>)}

ReadAdd ==
    \E x \in ReadInputs : Complete("add", x, NoOpts, AnagramService_add(State, x))

ReadGet ==
    \E x \in ReadInputs, opts \in GetOpts :
        Complete("get", x, opts, AnagramService_get(State, x, opts))

\* wordCount() and anagramCount() return the counter at once.
WordCount ==
    Complete("wordCount", <<>>, NoOpts,
             Settled(map, wordCount, anagramCount, "returned", wordCount))

AnagramCount ==
    Complete("anagramCount", <<>>, NoOpts,
             Settled(map, wordCount, anagramCount, "returned", anagramCount))

ReadNext ==
    \/ ReadAdd
    \/ Clear
    \/ ReadGet
    \/ AreAnagramsCall
    \/ AreAnagramsSettle
    \/ ByCardinality
    \/ ByLength
    \/ MaxCardinality
    \/ MaxLength
    \/ Stats
    \/ WordCount
    \/ AnagramCount
    \/ QueryReturn

ReadSpec == Init /\ [][ReadNext]_vars

QueryOps ==
    {"get", "areAnagrams", "anagramsByCardinality", "anagramsByLength",
     "maxCardinalityAnagrams", "maxLengthAnagrams", "stats", "wordCount", "anagramCount"}

(* C36: get, areAnagrams, anagramsByCardinality, anagramsByLength,         *)
(* maxCardinalityAnagrams, maxLengthAnagrams, stats, wordCount and         *)
(* anagramCount leave every stored set, in contents and order, and both    *)
(* counters as they were, for every argument and every option.             *)
C36_QueriesChangeNothing ==
    last.op \in QueryOps => (map = last.pre.map /\ SameCounters(State, last.pre))

\* get with a limit and without proper nouns returned one of the three
\* words stored at its key, and the three are still stored.
C36_Witness ==
    /\ last.op = "get" /\ last.word = Str(acer)
    /\ last.opts.excludeProperNouns /\ last.opts.limit = Num(1) /\ last.opts.includeInput
    /\ Len(SetAt(map, normalizeWord(acer))) = 3
    /\ Len(last.value) = 1

---------------------------------------------------------------------------
(* Calls issued back-to-back: the executor of add, delete and clear runs   *)
(* at call time and reaches the store at once (MemoryAdapter settles its   *)
(* promise inside its own executor), while the callback that updates       *)
(* wordCount and anagramCount is queued and runs after the calling code    *)
(* has finished, in the order the calls were issued.                       *)

\* At most this many callbacks wait in the queue.
MaxPending == 3

CallWords == {Str(acer), Str(Acer), Str(care), Str(<<"-", "a">>)}

\* The callback add queues for a store result.
addJob(result) ==
    Job("added", addWordCountIncrement(result), addAnagramCountIncrement(result))

\* The callback delete queues for a store result.
deleteJob(result) ==
    IF result.affected # 0
    THEN Job("deleted", result.affected, deleteAnagramCountDecrement(result))
    ELSE Job("deleted", 0, 0)

\* The callback clear queues.
clearJob == Job("cleared", 0, 0)

\* Fault variant: the callback of clear leaves the counters as they are.
runCallback_clearKeeps(counters, job) ==
    CASE job.kind = "added" ->
             [wordCount |-> counters.wordCount + job.word,
              anagramCount |-> counters.anagramCount + job.anagram]
      [] job.kind = "deleted" ->
             [wordCount |-> counters.wordCount - job.word,
              anagramCount |-> counters.anagramCount - job.anagram]
      [] OTHER -> counters

\* The counters after a queued callback has run.
runCallback(counters, job) ==
    CASE job.kind = "added" ->
             [wordCount |-> counters.wordCount + job.word,
              anagramCount |-> counters.anagramCount + job.anagram]
      [] job.kind = "deleted" ->
             [wordCount |-> counters.wordCount - job.word,
              anagramCount |-> counters.anagramCount - job.anagram]
      [] job.kind = "cleared" -> [wordCount |-> 0, anagramCount |-> 0]

\* Fault variant: the callback queued last runs first.
dequeue_lifo(jobs) ==
    [job |-> jobs[Len(jobs)], rest |-> SubSeq(jobs, 1, Len(jobs) - 1)]

\* Callbacks leave the queue in the order they entered it.
dequeue(jobs) == [job |-> Head(jobs), rest |-> Tail(jobs)]

\* The callbacks that wait, and the kinds and the greatest number of
\* callbacks that waited together since the queue was last empty.
PendingJobs == IF last.op = "calls" THEN last.value.jobs ELSE <<>>

PendingKinds == IF PendingJobs = <<>> THEN {} ELSE last.value.kinds

PendingPeak == IF PendingJobs = <<>> THEN 0 ELSE last.value.peak

\* A call has run its executor: the store is as the executor left it, the
\* counters are untouched, and the callback (none for a rejected word) waits.
Issued(call, x, opts, m, queued) ==
    /\ last.op \in {"none", "calls"}
    /\ Len(PendingJobs) < MaxPending
    /\ map' = m
    /\ UNCHANGED <<wordCount, anagramCount>>
    /\ last' = [op |-> "calls", word |-> x, opts |-> opts, pre |-> State,
                outcome |-> "pending",
                value |-> [issued |-> call,
                           pending |-> Len(PendingJobs),
                           jobs |-> PendingJobs \o queued,
                           kinds |-> PendingKinds \cup {queued[i].kind : i \in 1..Len(queued)},
                           peak |-> IF PendingPeak > Len(PendingJobs) + Len(queued)
                                    THEN PendingPeak
                                    ELSE Len(PendingJobs) + Len(queued)]]

IssueAdd ==
    \E x \in CallWords :
        IF ~isValidWord(x) THEN Issued("add", x, NoOpts, map, <<>>)
        ELSE LET word == trim(x.v)
                 result == MemoryAdapter_add(map, normalizeWord(word), word)
             IN  /\ totalWords(result.map) <= MaxWords
                 /\ Issued("add", x, NoOpts, result.map, <<addJob(result)>>)

IssueDelete ==
    \E x \in CallWords, opts \in DeleteOpts :
        IF ~isValidWord(x) THEN Issued("delete", x, opts, map, <<>>)
        ELSE LET word == trim(x.v)
                 result == MemoryAdapter_delete(map, normalizeWord(word),
                                                deleteCond(word, opts))
             IN  Issued("delete", x, opts, result.map, <<deleteJob(result)>>)

IssueClear == Issued("clear", NotAString, NoOpts, MemoryAdapter_clear(map), <<clearJob>>)

\* wordCount() and anagramCount() are read by the calling code; what they
\* return is kept as the counters of last.pre.
ReadCounts == Issued("counts", NotAString, NoOpts, map, <<>>)

\* The callback at the head of the queue runs.
RunCallback ==
    /\ PendingJobs # <<>>
    /\ LET next == dequeue(PendingJobs)
           counters == runCallback([wordCount |-> wordCount,
                                    anagramCount |-> anagramCount], next.job)
       IN  /\ wordCount' = counters.wordCount
           /\ anagramCount' = counters.anagramCount
           /\ last' = [last EXCEPT !.pre = State,
                                   !.value.issued = "callback",
                                   !.value.pending = Len(PendingJobs),
                                   !.value.jobs = next.rest]
    /\ UNCHANGED map

\* Every callback has run and the caller goes on.
CallsReturn ==
    /\ last.op = "calls" /\ PendingJobs = <<>>
    /\ Return

CallsNext == IssueAdd \/ IssueDelete \/ IssueClear \/ ReadCounts \/ RunCallback \/ CallsReturn

CallsSpec == Init /\ [][CallsNext]_vars

---------------------------------------------------------------------------
(* Properties of calls issued back-to-back                                 *)

\* The counters after every waiting callback has run, in queue order.
RECURSIVE Drained(_, _)
Drained(counters, jobs) ==
    IF jobs = <<>> THEN counters
    ELSE Drained(runCallback(counters, dequeue(jobs).job), dequeue(jobs).rest)

\* The last step was the executor of a call that reached the store, or a read
\* of the counters.
LastStepOfACall ==
    /\ last.op = "calls"
    /\ \/ last.value.issued \in {"clear", "counts"}
       \/ last.value.issued \in {"add", "delete"} /\ isValidWord(last.word)

(* C31: the store mutation of an add, delete or clear happens at call time *)
(* and its update of wordCount and anagramCount in a callback that runs    *)
(* later, so calls issued back-to-back reach the store, and counter reads  *)
(* happen, in between; in every state the counters with the waiting        *)
(* updates applied in issue order are what a full scan of the store gives. *)
C31_QueuedUpdatesAccountForStore ==
    LET counters == Drained([wordCount |-> wordCount, anagramCount |-> anagramCount],
                            PendingJobs)
    IN  /\ counters.wordCount = scanWordCount(map)
        /\ counters.anagramCount = scanAnagramCount(map)

\* The counters were read while the updates of two adds waited: the store
\* holds two words and the read gave none.
C31_Witness ==
    /\ last.op = "calls" /\ last.value.issued = "counts"
    /\ last.value.pending = 2
    /\ scanWordCount(map) = 2
    /\ last.pre.wordCount = 0

\* As stated: no step of another operation happens between the store
\* mutation of an operation and its counter update.
C31_AsStated == LastStepOfACall => last.value.pending = 0

(* C32: when add, delete and clear calls are issued back-to-back, once     *)
(* every callback has run wordCount and anagramCount are what a full scan  *)
(* of the store computes.                                                  *)
C32_CountersMatchOnceDrained ==
    (last.op = "calls" /\ PendingJobs = <<>>) =>
        /\ wordCount = scanWordCount(map)
        /\ anagramCount = scanAnagramCount(map)

\* Three callbacks of adds, deletes and a clear waited together, all have
\* run, and words are stored.
C32_Witness ==
    /\ last.op = "calls" /\ last.value.issued = "callback"
    /\ last.value.jobs = <<>>
    /\ last.value.peak = MaxPending
    /\ last.value.kinds = {"added", "deleted", "cleared"}
    /\ anagramCount = 1

---------------------------------------------------------------------------
(* Results held by the caller: MemoryAdapter.get and MemoryAdapter.each    *)
(* hand out the arrays of the Map themselves, so a result of a query can   *)
(* be the very array a later add pushes onto or a later delete splices.    *)
(* last.value keeps the sets as they were returned, the sets as the caller *)
(* sees them now, and for each set whether it still is the stored array.   *)

HoldWords == {acer, Acer, care, <<"a">>}

HoldInputs == {Str(w) : w \in HoldWords} \cup {Str(<<"-", "a">>)}

HoldOpts ==
    [includeInput : BOOLEAN, excludeProperNouns : BOOLEAN,
     limit : {Undefined, Num(0), Num(1)}, includeAnagrams : {FALSE}]

HoldNumbers == {Undefined, Num(2)}

\* At most this many calls are made while a result is held.
MaxLater == 2

HoldAdd ==
    \E x \in HoldInputs :
        LET r == AnagramService_add(State, x)
        IN  totalWords(r.map) <= MaxWords /\ Complete("add", x, NoOpts, r)

\* get resolves with the array read from the store unless a filter or a
\* slice has put a new array in its place.
getResolvesStoredArray(m, x, opts) ==
    /\ isValidWord(x)
    /\ hasWord(MemoryAdapter_get(m, normalizeWord(trim(x.v))), trim(x.v))
    /\ opts.includeInput
    /\ ~opts.excludeProperNouns
    /\ ~truthy(opts.limit)

\* The key under which a stored array is kept.
keyOf(anagramSet) == normalizeWord(Head(anagramSet))

\* The query has resolved and the caller keeps what it resolved with.
Held(query, x, opts, sets, live) ==
    /\ last.op = "none"
    /\ last' = [op |-> "held", word |-> x, opts |-> opts, pre |-> State,
                outcome |-> "resolved",
                value |-> [query |-> query, returned |-> sets, now |-> sets,
                           live |-> live, later |-> "none", calls |-> 0]]
    /\ UNCHANGED <<map, wordCount, anagramCount>>

AllStored(sets) == [i \in 1..Len(sets) |-> TRUE]

HoldGet ==
    \E x \in {y \in HoldInputs : isValidWord(y)}, opts \in HoldOpts :
        Held("get", x, opts, <<AnagramService_get(State, x, opts).value>>,
             <<getResolvesStoredArray(map, x, opts)>>)

HoldByCardinality ==
    \E min \in HoldNumbers, max \in HoldNumbers :
        LET sets == anagramsByCardinality(map, min, max)
        IN  Held("anagramsByCardinality", <<min, max>>, NoOpts, sets, AllStored(sets))

HoldByLength ==
    \E min \in HoldNumbers, max \in HoldNumbers :
        LET sets == anagramsByLength(map, min, max)
        IN  Held("anagramsByLength", <<min, max>>, NoOpts, sets, AllStored(sets))

HoldMaxCardinality ==
    LET sets == maxCardinalityAnagrams(map)
    IN  Held("maxCardinalityAnagrams", <<>>, NoOpts, sets, AllStored(sets))

HoldMaxLength ==
    LET sets == maxLengthAnagrams(map)
    IN  Held("maxLengthAnagrams", <<>>, NoOpts, sets, AllStored(sets))

\* Whether a held array is still the one the store keeps after
\* MemoryAdapter.delete(key, val): the key is dropped with the array left as
\* it is when the whole set goes or its only value is deleted, the predicate
\* form puts a filtered copy in its place, and otherwise the array stays
\* and is spliced.
storedAfterDelete(anagramSet, key, val) ==
    \/ keyOf(anagramSet) # key
    \/ /\ val.kind = "value"
       /\ ~(indexOf(anagramSet, val.word) > 0 /\ Len(anagramSet) = 1)

\* A later call has run: the held arrays the store still keeps read as the
\* store has them, the others as they were.
Later(call, r, stored) ==
    /\ last.op = "held"
    /\ last.value.calls < MaxLater
    /\ map' = r.map
    /\ wordCount' = r.wordCount
    /\ anagramCount' = r.anagramCount
    /\ last' = [last EXCEPT
                  !.value.later = call,
                  !.value.calls = @ + 1,
                  !.value.live = [i \in DOMAIN @ |-> @[i] /\ stored[i]],
                  !.value.now = [i \in DOMAIN @ |->
                                    IF last.value.live[i] /\ stored[i]
                                    THEN mapGet(r.map, keyOf(@[i]))
                                    ELSE @[i]]]

LaterAdd ==
    \E x \in HoldInputs :
        LET r == AnagramService_add(State, x)
        IN  /\ last.op = "held"
            /\ totalWords(r.map) <= MaxWords
            /\ Later("add", r, AllStored(last.value.now))

LaterDelete ==
    \E x \in HoldInputs, opts \in DeleteOpts :
        /\ last.op = "held"
        /\ Later("delete", AnagramService_delete(State, x, opts),
                 [i \in 1..Len(last.value.now) |->
                     \/ ~isValidWord(x)
                     \/ ~last.value.live[i]
                     \/ storedAfterDelete(last.value.now[i], normalizeWord(trim(x.v)),
                                          deleteCond(trim(x.v), opts))])

LaterClear ==
    /\ last.op = "held"
    /\ Later("clear", AnagramService_clear(State),
             [i \in 1..Len(last.value.now) |-> FALSE])

HoldNext ==
    \/ HoldAdd
    \/ HoldGet
    \/ HoldByCardinality
    \/ HoldByLength
    \/ HoldMaxCardinality
    \/ HoldMaxLength
    \/ LaterAdd
    \/ LaterDelete
    \/ LaterClear
    \/ Return

HoldSpec == Init /\ [][HoldNext]_vars

---------------------------------------------------------------------------
(* Properties of held results                                              *)

(* C40: a result returned by a query is a snapshot: the sequence returned  *)
(* by get(w, {includeInput: true}) and each set returned by a scan keeps   *)
(* the contents it had when returned, whatever add or delete is performed  *)
(* afterwards.                                                             *)
C40_ResultsAreSnapshots ==
    last.op = "held" => last.value.now = last.value.returned

=============================================================================
